---- MODULE Spec2Model ----
(***************************************************************************)
(* A model of `up` (egtann/up), the command-driven deployment tool: the    *)
(* batch partitioner, the substitution engine and the execution            *)
(* orchestrator of cmd/up (run, runExecIfs, runExec, runCmd).              *)
(*                                                                         *)
(* Strings are sequences of one-character strings, so that "$"+name,       *)
(* strings.Replacer, strings.TrimSpace and strings.SplitN are computed as  *)
(* the code computes them.                                                 *)
(***************************************************************************)
EXTENDS Integers, Sequences, FiniteSets, TLC

\* ------------------------------------------------------------------ bounds

\* Number of hosts of the inventory of a run.
NumHosts == 3

\* Number of hosts of the inventories the batch partitioner is tried on.
NumBatchHosts == 3

\* Number of tags the inventory uses.
NumTags == 2

\* Largest value of the -n (serial) flag that is tried.
MaxSerial == 2

\* The iteration bound of substituteVariables (for i := 0; i < 10; i++).
MaxSubstitutions == 10

\* ----------------------------------------------------------------- strings

NL == "\n"

Min(S) == CHOOSE x \in S : \A y \in S : x <= y

\* Whether old occurs in s at position i (1-based).
HasPrefixAt(s, i, old) ==
    /\ i + Len(old) - 1 <= Len(s)
    /\ \A k \in 1..Len(old) : s[i + k - 1] = old[k]

\* strings.Replacer.Replace (the generic replacer): scanning left to right,
\* at each position the first pair, in argument order, whose old string is a
\* prefix of the rest is applied and its old string skipped; otherwise one
\* character is copied.  pairs is the argument list as <<old, new>> pairs.
RECURSIVE ReplaceFrom(_, _, _)
ReplaceFrom(pairs, s, i) ==
    IF i > Len(s) THEN <<>>
    ELSE LET m == {k \in 1..Len(pairs) : HasPrefixAt(s, i, pairs[k][1])}
         IN  IF m = {} THEN <<s[i]>> \o ReplaceFrom(pairs, s, i + 1)
             ELSE pairs[Min(m)][2]
                      \o ReplaceFrom(pairs, s, i + Len(pairs[Min(m)][1]))

Replace(pairs, s) == ReplaceFrom(pairs, s, 1)

IsSpace(c) == c \in {" ", "\t", "\n", "\r"}

\* strings.TrimSpace
RECURSIVE TrimLeft(_)
TrimLeft(s) ==
    IF s # <<>> /\ IsSpace(Head(s)) THEN TrimLeft(Tail(s)) ELSE s

RECURSIVE TrimRight(_)
TrimRight(s) ==
    IF s # <<>> /\ IsSpace(s[Len(s)])
    THEN TrimRight(SubSeq(s, 1, Len(s) - 1)) ELSE s

TrimSpace(s) == TrimRight(TrimLeft(s))

\* strings.SplitN(s, "\n", -1): the pieces between newlines, empty ones kept.
RECURSIVE SplitLines(_)
SplitLines(s) ==
    IF \E i \in 1..Len(s) : s[i] = NL
    THEN LET i == Min({k \in 1..Len(s) : s[k] = NL})
         IN  <<SubSeq(s, 1, i - 1)>> \o SplitLines(SubSeq(s, i + 1, Len(s)))
    ELSE <<s>>

\* An arbitrary but fixed enumeration of a finite set (one iteration order of
\* a Go map).
RECURSIVE SetToSeq(_)
SetToSeq(S) ==
    IF S = {} THEN <<>>
    ELSE LET x == CHOOSE y \in S : TRUE IN <<x>> \o SetToSeq(S \ {x})

\* Every enumeration of a finite set (every iteration order of a Go map).
Perms(S) ==
    {p \in [1..Cardinality(S) -> S] : \A x \in S : \E i \in DOMAIN p : p[i] = x}

Range(f) == {f[i] : i \in DOMAIN f}

\* ------------------------------------------------------- substitution engine

\* rep := ""; for c in Execs { rep += c + "\n" }; strings.TrimSpace(rep)
RECURSIVE JoinExecs(_)
JoinExecs(execs) ==
    IF execs = <<>> THEN <<>>
    ELSE Head(execs) \o <<NL>> \o JoinExecs(Tail(execs))

\* The replacement list of substituteVariables: one pair per guard-free
\* command, in the order cmdOrder enumerates the table, then one pair per
\* runtime variable, in the order varOrder enumerates them.
RECURSIVE CmdPairs(_, _)
CmdPairs(cmds, cmdOrder) ==
    IF cmdOrder = <<>> THEN <<>>
    ELSE LET n == Head(cmdOrder)
         IN  (IF Len(cmds[n].ExecIfs) > 0 THEN <<>>
              ELSE << <<(<<"$">> \o n), TrimSpace(JoinExecs(cmds[n].Execs))>> >>)
             \o CmdPairs(cmds, Tail(cmdOrder))

RECURSIVE VarPairs(_, _)
VarPairs(vars, varOrder) ==
    IF varOrder = <<>> THEN <<>>
    ELSE << <<(<<"$">> \o Head(varOrder)), vars[Head(varOrder)]>> >>
             \o VarPairs(vars, Tail(varOrder))

Replacements(vars, cmds, cmdOrder, varOrder) ==
    CmdPairs(cmds, cmdOrder) \o VarPairs(vars, varOrder)

\* A substituteVariables that makes one pass and returns what it gives.
SubstLoopOnePass(pairs, cmd, i) == [out |-> Replace(pairs, cmd), err |-> "nil"]

\* The loop of substituteVariables: replace until a pass changes nothing, or
\* give up after MaxSubstitutions passes.
RECURSIVE SubstLoop(_, _, _)
SubstLoop(pairs, cmd, i) ==
    IF i >= MaxSubstitutions
    THEN [out |-> <<>>, err |-> "possible cycle detected"]
    ELSE LET tmp == Replace(pairs, cmd)
         IN  IF cmd = tmp THEN [out |-> cmd, err |-> "nil"]
             ELSE SubstLoop(pairs, tmp, i + 1)

substituteWith(vars, cmds, cmdOrder, varOrder, cmd) ==
    SubstLoop(Replacements(vars, cmds, cmdOrder, varOrder), cmd, 0)

\* substituteVariables under one enumeration order of the two maps.
substituteVariables(vars, cmds, cmd) ==
    substituteWith(vars, cmds, SetToSeq(DOMAIN cmds), SetToSeq(DOMAIN vars), cmd)

\* copyCommands followed by cmds[name] = &up.Cmd{Execs: []string{value}}:
\* a copy of the table with one pseudo-command added or overwritten.
WithPseudo(cmds, name, value) ==
    [n \in DOMAIN cmds \cup {name} |->
        IF n = name THEN [ExecIfs |-> <<>>, Execs |-> <<value>>] ELSE cmds[n]]

\* --------------------------------------------------------------- the Upfile

Digits == <<"1", "2", "3", "4", "5", "6", "7", "8", "9">>

server == <<"s", "e", "r", "v", "e", "r">>
checksum == <<"c", "h", "e", "c", "k", "s", "u", "m">>
all == <<"a", "l", "l">>

cUp == <<"u", "p">>
cTwo == <<"t", "w", "o">>
cDep == <<"d", "e", "p">>
cHc == <<"h", "c">>
cVc == <<"v", "c">>
cGbad == <<"g", "b">>
cGc == <<"g", "c">>
cMbad == <<"m", "b">>
cP == <<"p">>
cQ == <<"q">>

\* The command table (up.Config.Commands) of the Upfile
\*
\*   up                      dep hc vc            gb hc gc       mb
\*       e $server               d $checksum          x              x
\*       $two                hc                   gc                 $p
\*   two                         c $server            $p         p
\*       a                   vc two                                  $q
\*       b                       v $checksum                     q
\*                                                                   $p
\*
\* `up` has no guard and a line that expands to two lines; `dep` is the
\* README's deploy with its two guards, the second of which has a guard of
\* its own; `gb` has a guard whose line cannot be substituted (p and q refer
\* to each other); `mb` has such a main line.
Commands ==
    (cUp :> [ExecIfs |-> <<>>,
             Execs |-> << <<"e", " ">> \o <<"$">> \o server,
                          <<"$">> \o cTwo >>]) @@
    (cTwo :> [ExecIfs |-> <<>>, Execs |-> << <<"a">>, <<"b">> >>]) @@
    (cDep :> [ExecIfs |-> <<cHc, cVc>>,
              Execs |-> << <<"d", " ">> \o <<"$">> \o checksum >>]) @@
    (cHc :> [ExecIfs |-> <<>>,
             Execs |-> << <<"c", " ">> \o <<"$">> \o server >>]) @@
    (cVc :> [ExecIfs |-> <<cTwo>>,
             Execs |-> << <<"v", " ">> \o <<"$">> \o checksum >>]) @@
    (cGbad :> [ExecIfs |-> <<cHc, cGc>>, Execs |-> << <<"x">> >>]) @@
    (cGc :> [ExecIfs |-> <<>>, Execs |-> << <<"$">> \o cP >>]) @@
    (cMbad :> [ExecIfs |-> <<>>, Execs |-> << <<"x">>, <<"$">> \o cP >>]) @@
    (cP :> [ExecIfs |-> <<>>, Execs |-> << <<"$">> \o cQ >>]) @@
    (cQ :> [ExecIfs |-> <<>>, Execs |-> << <<"$">> \o cP >>])

\* The first command of the Upfile (Config.DefaultCommand after parsing).
FirstCommand == cUp

\* The runtime variables (flags.Vars, from the environment).
Vars == (<<"U">> :> <<"r", "o", "o", "t">>)

\* The checksum calcChecksum returns for the directory.
Chk == <<"K", "7">>

\* ------------------------------------------------------------ the inventory

Hosts == 1..NumHosts
BatchHosts == 1..NumBatchHosts
AllHosts == Hosts \cup BatchHosts
InvTagIds == 1..NumTags

HostName(h) == <<"h", Digits[h]>>

\* The tags of the inventory: the first is named like the command `up`, as
\* in `upgen my_app | up -`, the others t2, t3, ...
TagName(t) == IF t = 1 THEN cUp ELSE <<"t", Digits[t]>>
InvTags == {TagName(t) : t \in InvTagIds}

\* runExec without its pseudo-command checksum.
runExecCmdsNoChecksum(cmds, chkv) == cmds

\* runExec: cmds = copyCommands(cmds); cmds["checksum"] = chk.
runExecCmds(cmds, chkv) == WithPseudo(cmds, checksum, chkv)

\* runCmd: cmds = copyCommands(cmds); cmds["server"] = server.
runCmdCmds(cmds, h) == WithPseudo(cmds, server, HostName(h))

\* -------------------------------------------------------------------- state

VARIABLES
    flgs,           \* the parsed flags: Command, Tags, Serial, Prompt
    inventory,      \* up.Inventory: host -> its tags (a host may be deleted)
    invOrder,       \* the order in which the inventory map is iterated
    defaultCommand, \* conf.DefaultCommand
    chk,            \* the checksum of the run
    batches,        \* batch: tag -> list of host groups
    mainPc,         \* where run() is: start, sched, prompt, wait, returned
    ret,            \* the error run() returned
    exitCode,       \* the exit status of the process, -1 while it runs
    unsched,        \* tags of batches the scheduling loop has not reached
    confirm,        \* number of values buffered in the confirm channel
    done,           \* number of values buffered in the done channel
    waitI,          \* i of the final wait loop of run()
    crashClosed,    \* whether the deferred close(crash) has run
    pipe,           \* per tag: the state of its pipeline goroutine
    obs,            \* what has been observed of the run so far
    sub,            \* one call of substituteVariables: its arguments and result
    heap,           \* the command tables (Go maps) of one runExec, by reference
    rc,             \* the runCmd goroutines of that runExec, by host
    text,           \* the Upfile text handed to parse
    parsed,         \* what parse returned for it
    lx              \* the lexing goroutine of that parse and its channel

\* The state of a run of cmd/up.
runVars == <<flgs, inventory, invOrder, defaultCommand, chk, batches, mainPc, ret,
             exitCode, unsched, confirm, done, waitI, crashClosed, pipe, obs>>

\* The state of the calls that are looked at on their own: one
\* substituteVariables, one runExec with its runCmd goroutines, one parse.
libVars == <<sub, heap, rc, text, parsed, lx>>

vars == <<runVars, libVars>>

\* errors: nil, or what failed and where
NilErr == [kind |-> "nil", tag |-> <<>>, g |-> 0, host |-> 0]
MkErr(kind, t, g, h) == [kind |-> kind, tag |-> t, g |-> g, host |-> h]

\* A pipeline goroutine that has not been started.
IdlePipe ==
    [pc |-> "idle", g |-> 0, mode |-> "none", gi |-> 0, si |-> 0, li |-> 0,
     subs |-> <<>>, needToRun |-> FALSE, task |-> <<>>, lastErr |-> NilErr,
     ch |-> {}, chErr |-> NilErr, i |-> 0, pend |-> NilErr]

\* What is observed of one tag's current group (reset when a group starts).
IdleObs ==
    [g |-> 0, gZero |-> 0, gNonZero |-> {}, mainHosts |-> {}, nMain |-> 0,
     mainFail |-> {}, failAt |-> 0, subErr |-> FALSE, collected |-> <<>>,
     okHosts |-> 0]

NoObs ==
    [tag |-> [t \in InvTags |-> IdleObs], firstErr |-> NilErr, errs |-> {},
     badGroups |-> {}, declined |-> FALSE]

\* No call of substituteVariables, runExec or parse is looked at, and no
\* lexing goroutine.
NoSub == [st |-> "none"]
NotParsed == [st |-> "none"]
NoLex == [pc |-> "none"]
LibIdle ==
    /\ sub = NoSub
    /\ heap = <<>>
    /\ rc = <<>>
    /\ text = <<>>
    /\ parsed = NotParsed
    /\ lx = NoLex

\* The inventories tried by the batch partitioner's specification: every
\* assignment of tags to hosts.
AllInventories == [BatchHosts -> SUBSET InvTags]

\* The inventory of the orchestrator's specification: every host carries the
\* first tag, and the last host carries every tag, so that the first tag has
\* several groups and the tags share a host.
RunInventory ==
    [h \in Hosts |-> {TagName(t) : t \in {u \in InvTagIds : u = 1 \/ h = NumHosts}}]

\* The hosts in ascending order.
Ascending(n) == [i \in 1..n |-> i]

\* The commands a run may be asked for with -c.
RunCommands == {cUp, cDep, cGbad, cMbad}

InitRest ==
    /\ defaultCommand = FirstCommand
    /\ chk = <<>>
    /\ batches = <<>>
    /\ mainPc = "start"
    /\ ret = NilErr
    /\ exitCode = -1
    /\ unsched = {}
    /\ confirm = 0
    /\ done = 0
    /\ waitI = 0
    /\ crashClosed = FALSE
    /\ pipe = [t \in InvTags |-> IdlePipe]
    /\ obs = NoObs

Init ==
    /\ flgs \in [Command : RunCommands,
                 Tags : {{}, InvTags},
                 Serial : 1..MaxSerial,
                 Prompt : BOOLEAN]
    /\ inventory = RunInventory
    /\ invOrder = Ascending(NumHosts)
    /\ InitRest
    /\ LibIdle

InitBatch ==
    /\ flgs \in [Command : {cUp, <<>>, <<"n", "o">>},
                 Tags : (SUBSET InvTags) \cup {{all}},
                 Serial : 0..MaxSerial,
                 Prompt : {FALSE}]
    /\ inventory \in AllInventories
    /\ invOrder \in Perms(BatchHosts)
    /\ InitRest
    /\ LibIdle

\* -------------------------------------------------------- batch partitioner

\* appendToBatch with its comparison off by one (len(last) > max).
appendToBatchOffByOne(b, srv, max) ==
    IF Len(b) = 0 THEN << <<srv>> >>
    ELSE LET last == b[Len(b)]
         IN  IF Len(last) > max THEN Append(b, <<srv>>)
             ELSE [b EXCEPT ![Len(b)] = Append(last, srv)]

\* appendToBatch: add to the last batch if it is smaller than max, else open
\* a new batch.
appendToBatch(b, srv, max) ==
    IF Len(b) = 0 THEN << <<srv>> >>
    ELSE LET last == b[Len(b)]
         IN  IF Len(last) >= max THEN Append(b, <<srv>>)
             ELSE [b EXCEPT ![Len(b)] = Append(last, srv)]

RECURSIVE appendAll(_, _, _)
appendAll(b, ips, max) ==
    IF ips = <<>> THEN b
    ELSE appendAll(appendToBatch(b, Head(ips), max), Tail(ips), max)

\* The hosts of order (one iteration order of the inventory map) that carry
\* tag: invMap[tag] of makeBatches.
RECURSIVE invMapOf(_, _, _)
invMapOf(inv, order, tag) ==
    IF order = <<>> THEN <<>>
    ELSE (IF tag \in inv[Head(order)] THEN <<Head(order)>> ELSE <<>>)
             \o invMapOf(inv, Tail(order), tag)

\* makeBatches without its `max == 0` case.
makeBatchesNoZero(inv, order, max) ==
    LET tags == UNION {inv[h] : h \in DOMAIN inv}
    IN  [tag \in tags |-> appendAll(<<>>, invMapOf(inv, order, tag), max)]

\* makeBatches(conf, inventory, max) when the inventory map is iterated in
\* order: the batches by tag; the empty function stands for the error
\* "empty batches, nothing to do".
makeBatches(inv, order, max) ==
    LET tags == UNION {inv[h] : h \in DOMAIN inv}
    IN  [tag \in tags |->
            IF max = 0 THEN <<invMapOf(inv, order, tag)>>
            ELSE appendAll(<<>>, invMapOf(inv, order, tag), max)]

\* ------------------------------------------------------------ run(): set up

\* run() returns err: the deferred close(crash) runs only once crash exists.
Return(err, closes) ==
    /\ mainPc' = "returned"
    /\ ret' = err
    /\ crashClosed' = closes

\* The tags run() works with: -t, or the command's name when -t is absent.
EffectiveTags(tags, cmd) == IF tags = {} THEN {cmd} ELSE tags

\* The filtering of run() without its two removals: every host and every
\* tag is kept.
filterInventoryKeepAll(inv, tags) == inv

\* "Remove any unnecessary inventory" and "remove any tags which are not in
\* the provided flags": without the tag `all`, hosts with no selected tag are
\* deleted; every remaining host keeps only its selected tags.
filterInventory(inv, tags) ==
    LET kept == IF all \in tags THEN DOMAIN inv
                ELSE {h \in DOMAIN inv : inv[h] \cap tags # {}}
    IN  [h \in kept |-> inv[h] \cap tags]

\* run() from its start to the scheduling loop: the command is looked up, the
\* inventory filtered, the checksum computed, the batches made and the
\* confirm channel filled.
Setup ==
    /\ mainPc = "start"
    /\ LET cmd == IF flgs.Command # <<>> THEN flgs.Command ELSE defaultCommand
           tags == EffectiveTags(flgs.Tags, cmd)
           inv == filterInventory(inventory, tags)
       IN  /\ defaultCommand' = cmd
           /\ IF cmd \notin DOMAIN Commands
              THEN /\ Return(MkErr("undefined command", <<>>, 0, 0), FALSE)
                   /\ UNCHANGED <<flgs, inventory, chk, batches, unsched, confirm>>
              ELSE /\ flgs' = [flgs EXCEPT !.Tags = tags]
                   /\ inventory' = inv
                   /\ IF DOMAIN inv = {}
                      THEN /\ Return(MkErr("tags not defined in inventory", <<>>, 0, 0),
                                     FALSE)
                           /\ UNCHANGED <<chk, batches, unsched, confirm>>
                      ELSE /\ chk' = Chk
                           /\ LET order == SelectSeq(invOrder,
                                                     LAMBDA h : h \in DOMAIN inv)
                                    b == makeBatches(inv, order, flgs.Serial)
                                IN  IF DOMAIN b = {}
                                    THEN /\ Return(MkErr("empty batches", <<>>, 0, 0),
                                                   FALSE)
                                         /\ UNCHANGED <<batches, unsched, confirm>>
                                    ELSE /\ batches' = b
                                         /\ unsched' = DOMAIN b
                                         /\ confirm' = IF flgs.Prompt THEN 1
                                                       ELSE Cardinality(DOMAIN b)
                                         /\ mainPc' = "sched"
                                         /\ UNCHANGED <<ret, crashClosed>>
    /\ UNCHANGED <<invOrder, exitCode, done, waitI, pipe, obs>>
    /\ UNCHANGED libVars


\* ------------------------------------------------ run(): the scheduling loop

Alive == exitCode = -1

\* One turn of `for _, srvBatch := range batches`: a value is taken from
\* confirm and the pipeline goroutine of one tag is started.  With -p the
\* loop then waits in confirmPrompt.
Schedule(t) ==
    /\ Alive
    /\ mainPc = "sched"
    /\ t \in unsched
    /\ confirm > 0
    /\ confirm' = confirm - 1
    /\ unsched' = unsched \ {t}
    /\ pipe' = [pipe EXCEPT ![t] = [IdlePipe EXCEPT !.pc = "start", !.g = 1]]
    /\ mainPc' = IF flgs.Prompt THEN "prompt"
                 ELSE IF unsched' = {} THEN "wait" ELSE "sched"
    /\ UNCHANGED <<flgs, inventory, invOrder, defaultCommand, chk, batches, ret, exitCode,
                   done, waitI, crashClosed, obs>>
    /\ UNCHANGED libVars

\* confirmPrompt: "y", "yes" or an empty line puts a value on confirm and the
\* loop goes on; "n", "no" or a read error makes run() return nil.  (Any
\* other input asks again, which changes nothing.)
PromptAnswer(ans) ==
    /\ Alive
    /\ mainPc = "prompt"
    /\ IF ans = "y"
       THEN /\ confirm' = confirm + 1
            /\ mainPc' = IF unsched = {} THEN "wait" ELSE "sched"
            /\ UNCHANGED <<ret, crashClosed, obs>>
       ELSE /\ Return(NilErr, TRUE)
            /\ obs' = [obs EXCEPT !.declined = TRUE]
            /\ UNCHANGED confirm
    /\ UNCHANGED <<flgs, inventory, invOrder, defaultCommand, chk, batches, exitCode,
                   unsched, done, waitI, pipe>>
    /\ UNCHANGED libVars

\* ------------------------------------------------- runExecIfs, runExec, runCmd

TheCmd == Commands[defaultCommand]

GroupOf(t, g) == Range(batches[t][g])

\* runCmd that starts the shell with the line as it is when the line cannot
\* be substituted.
runCmdStartAnyway(h, line) ==
    LET r == substituteVariables(Vars, runCmdCmds(runExecCmds(Commands, chk), h),
                                 line)
    IN  IF r.err # "nil" THEN [st |-> "run", cmd |-> line]
        ELSE [st |-> "run", cmd |-> r.out]

\* runCmd up to the start of the shell: the line is substituted with the
\* pseudo-commands checksum (added by runExec) and server (added by runCmd);
\* a substitution error is the task's result, otherwise `sh -c cmd` starts.
runCmdStart(h, line) ==
    LET r == substituteVariables(Vars, runCmdCmds(runExecCmds(Commands, chk), h),
                                 line)
    IN  IF r.err # "nil" THEN [st |-> "subst", cmd |-> <<>>]
        ELSE [st |-> "run", cmd |-> r.out]

\* runExec up to its receive loop: one runCmd goroutine per server.
runExecStart(p, t, mode, line) ==
    [p EXCEPT !.pc = "wait", !.mode = mode, !.lastErr = NilErr,
              !.task = [h \in GroupOf(t, p.g) |-> runCmdStart(h, line)]]

\* A send that puts a result on the channel for the first server only.
sendToFirst(p, t, err) ==
    [p EXCEPT !.pc = "collect", !.task = <<>>, !.ch = {Min(GroupOf(t, p.g))},
              !.chErr = err, !.i = 0]

\* send(ch, err, servers): one result per server, all with the same err.
send(p, t, err) ==
    [p EXCEPT !.pc = "collect", !.task = <<>>, !.ch = GroupOf(t, p.g),
              !.chErr = err, !.i = 0]

\* The main loop of runExecIfs at line li of cmd.Execs: past the last line
\* the group succeeded; otherwise the line is substituted (an error is sent
\* to every server), split at newlines and its first piece is run.
mainLine(p, t, li) ==
    IF li > Len(TheCmd.Execs) THEN send(p, t, NilErr)
    ELSE LET r == substituteVariables(Vars, Commands, TheCmd.Execs[li])
         IN  IF r.err # "nil" THEN send(p, t, MkErr("subst", t, p.g, 0))
             ELSE LET cmdLines == SplitLines(r.out)
                  IN  runExecStart([p EXCEPT !.li = li, !.subs = Tail(cmdLines)],
                                   t, "main", Head(cmdLines))

\* runExecIfs after the guard loop, running the main lines whatever the
\* guards said.
afterGuardsAlways(p, t, needToRun) ==
    mainLine([p EXCEPT !.needToRun = needToRun], t, 1)

\* runExecIfs after the guard loop: with guards and none failed the group is
\* reported as success, otherwise the main lines are run.
afterGuards(p, t, needToRun) ==
    IF ~needToRun /\ Len(TheCmd.ExecIfs) > 0 THEN send(p, t, NilErr)
    ELSE mainLine([p EXCEPT !.needToRun = needToRun], t, 1)

\* Steps that start with the Execs of the guard's own first guard.
stepsNested(execIf) ==
    (IF Len(Commands[execIf].ExecIfs) > 0
     THEN Commands[Commands[execIf].ExecIfs[1]].Execs ELSE <<>>)
        \o Commands[execIf].Execs

\* steps := cmds[execIf].Execs: what is run for the guard execIf.
steps(execIf) == Commands[execIf].Execs

\* The step si of guard gi.
guardStep(p, t, gi, si) ==
    runExecStart([p EXCEPT !.gi = gi, !.si = si], t, "guard",
                 steps(TheCmd.ExecIfs[gi])[si])

\* afterGuardStep with needToRun overwritten by each step (needToRun = !ok)
\* instead of accumulated.
afterGuardStepOverwrite(p, t, ok, err) ==
    IF err # NilErr THEN send(p, t, err)
    ELSE LET needToRun == ~ok
             q == [p EXCEPT !.needToRun = needToRun]
         IN  IF p.si < Len(steps(TheCmd.ExecIfs[p.gi]))
             THEN guardStep(q, t, p.gi, p.si + 1)
             ELSE IF p.gi < Len(TheCmd.ExecIfs)
                  THEN guardStep(q, t, p.gi + 1, 1)
                  ELSE afterGuards(q, t, needToRun)

\* afterGuardStep that leaves the guard loop at the first failed step.
afterGuardStepShort(p, t, ok, err) ==
    IF err # NilErr THEN send(p, t, err)
    ELSE IF ~ok THEN afterGuards([p EXCEPT !.needToRun = TRUE], t, TRUE)
    ELSE IF p.si < Len(steps(TheCmd.ExecIfs[p.gi]))
         THEN guardStep(p, t, p.gi, p.si + 1)
         ELSE IF p.gi < Len(TheCmd.ExecIfs)
              THEN guardStep(p, t, p.gi + 1, 1)
              ELSE afterGuards(p, t, p.needToRun)

\* runExecIfs after runExec returned (ok, err) for a guard step: an error is
\* sent to every server; a failed step sets needToRun; the next step, the
\* next guard or the end of the guard loop follows.
afterGuardStep(p, t, ok, err) ==
    IF err # NilErr THEN send(p, t, err)
    ELSE LET needToRun == p.needToRun \/ ~ok
             q == [p EXCEPT !.needToRun = needToRun]
         IN  IF p.si < Len(steps(TheCmd.ExecIfs[p.gi]))
             THEN guardStep(q, t, p.gi, p.si + 1)
             ELSE IF p.gi < Len(TheCmd.ExecIfs)
                  THEN guardStep(q, t, p.gi + 1, 1)
                  ELSE afterGuards(q, t, needToRun)

\* afterMainStep that checks err only after the last piece of a line.
afterMainStepLate(p, t, err) ==
    IF p.subs # <<>>
    THEN runExecStart([p EXCEPT !.subs = Tail(p.subs)], t, "main", Head(p.subs))
    ELSE IF err # NilErr THEN send(p, t, err)
         ELSE mainLine(p, t, p.li + 1)

\* runExecIfs after runExec returned err for a piece of a main line: an
\* error is sent to every server; otherwise the next piece or line follows.
afterMainStep(p, t, err) ==
    IF err # NilErr THEN send(p, t, err)
    ELSE IF p.subs # <<>>
         THEN runExecStart([p EXCEPT !.subs = Tail(p.subs)], t, "main", Head(p.subs))
         ELSE mainLine(p, t, p.li + 1)

\* runExecIfs from its call to its first runExec (or to its sends).
runExecIfsStart(p, t) ==
    LET q == [p EXCEPT !.needToRun = FALSE, !.gi = 0, !.si = 0, !.li = 0,
                       !.subs = <<>>, !.ch = {}, !.chErr = NilErr, !.i = 0]
    IN  IF Len(TheCmd.ExecIfs) > 0 THEN guardStep(q, t, 1, 1)
        ELSE afterGuards(q, t, FALSE)

\* What a step of tag t's pipeline from p to q shows: a main line dispatched
\* to the group, or a substitution error sent to it.
Observe(o, p, q, t) ==
    [o EXCEPT
        !.tag[t].nMain = @ + (IF q.pc = "wait" /\ q.mode = "main" THEN 1 ELSE 0),
        !.tag[t].mainHosts =
            @ \cup (IF q.pc = "wait" /\ q.mode = "main"
                    THEN {h \in DOMAIN q.task : q.task[h].st = "run"} ELSE {}),
        !.tag[t].subErr = @ \/ (q.pc = "collect" /\ q.chErr.kind = "subst"),
        !.badGroups = @ \cup (IF q.pc = "collect" /\ q.chErr.kind = "subst"
                              THEN {<<t, q.g>>} ELSE {})]

\* A pipeline that starts a group only while no other pipeline is running
\* (the pipelines run one after the other).
groupReadyAlone(t) ==
    /\ pipe[t].pc = "start"
    /\ \A u \in InvTags \ {t} : pipe[u].pc \in {"idle", "done"}

\* `for _, srvGroup := range srvBatch` in the goroutine of tag t: the next
\* group is started as soon as the goroutine is there.
groupReady(t) == pipe[t].pc = "start"

\* The pipeline goroutine calls runExecIfs for its group p.g.
GroupStart(t) ==
    /\ Alive
    /\ groupReady(t)
    /\ LET q == runExecIfsStart(pipe[t], t)
           o == [obs EXCEPT !.tag[t] =
                    [IdleObs EXCEPT !.g = pipe[t].g,
                                    !.collected = Append(obs.tag[t].collected, 0),
                                    !.okHosts = obs.tag[t].okHosts]]
       IN  /\ pipe' = [pipe EXCEPT ![t] = q]
           /\ obs' = Observe(o, pipe[t], q, t)
    /\ UNCHANGED <<flgs, inventory, invOrder, defaultCommand, chk, batches, mainPc, ret,
                   exitCode, unsched, confirm, done, waitI, crashClosed>>
    /\ UNCHANGED libVars

\* runCmd without its execIf branch: every non-zero exit is an error.
runCmdResultNoExecIf(execIf, code, err) ==
    IF code # 0 THEN [pass |-> FALSE, error |-> err]
    ELSE [pass |-> TRUE, error |-> NilErr]

\* runCmd after c.Run() returned code: for a guard (execIf) a non-zero exit
\* is runResult{pass: false}, for a main line runResult{pass: false, error:
\* err}; a zero exit is runResult{pass: true}.
runCmdResult(execIf, code, err) ==
    IF code # 0
    THEN IF execIf THEN [pass |-> FALSE, error |-> NilErr]
         ELSE [pass |-> FALSE, error |-> err]
    ELSE [pass |-> TRUE, error |-> NilErr]

\* runCmd of host h ends: a substitution error is its result; otherwise the
\* shell exits with code.  runExec keeps the last error it receives.
Finish(t, h, code) ==
    /\ Alive
    /\ pipe[t].pc = "wait"
    /\ h \in DOMAIN pipe[t].task
    /\ LET p == pipe[t]
           guard == p.mode = "guard"
           res == runCmdResult(guard, code, MkErr("exit", t, p.g, h))
       IN  \/ /\ p.task[h].st = "subst"
              /\ code = 1
              /\ pipe' = [pipe EXCEPT ![t].task[h].st = "suberr",
                                      ![t].lastErr = MkErr("subst", t, p.g, h)]
              /\ obs' = [obs EXCEPT !.tag[t].subErr = TRUE,
                                    !.badGroups = @ \cup {<<t, p.g>>}]
           \/ /\ p.task[h].st = "run"
              /\ pipe' = [pipe EXCEPT
                            ![t].task[h].st = IF res.pass THEN "pass" ELSE "fail",
                            ![t].lastErr = IF res.error # NilErr THEN res.error ELSE @]
              /\ obs' = [obs EXCEPT
                            !.tag[t].gZero = @ + (IF guard /\ code = 0 THEN 1 ELSE 0),
                            !.tag[t].gNonZero =
                                @ \cup (IF guard /\ code # 0 THEN {h} ELSE {}),
                            !.tag[t].mainFail =
                                @ \cup (IF ~guard /\ code # 0 THEN {h} ELSE {}),
                            !.tag[t].failAt =
                                IF ~guard /\ code # 0 /\ @ = 0
                                THEN obs.tag[t].nMain ELSE @,
                            !.badGroups =
                                @ \cup (IF ~guard /\ code # 0 THEN {<<t, p.g>>} ELSE {})]
    /\ UNCHANGED <<flgs, inventory, invOrder, defaultCommand, chk, batches, mainPc,
                   ret, exitCode, unsched, confirm, done, waitI, crashClosed>>
    /\ UNCHANGED libVars

\* A runExec that returns after the first result.
receivedAny(p) ==
    \E h \in DOMAIN p.task : p.task[h].st \in {"pass", "fail", "suberr"}

\* `for i := 0; i < len(servers); i++ { res := <-ch ... }`: runExec has
\* received one result per server.
receivedAll(p) ==
    \A h \in DOMAIN p.task : p.task[h].st \in {"pass", "fail", "suberr"}

\* runExec has received the result of every server and returns (pass, err);
\* runExecIfs goes on to its next runExec or to its sends.
RunExecReturn(t) ==
    /\ Alive
    /\ pipe[t].pc = "wait"
    /\ receivedAll(pipe[t])
    /\ LET p == pipe[t]
           pass == \A h \in DOMAIN p.task : p.task[h].st = "pass"
           q == IF p.mode = "guard" THEN afterGuardStep(p, t, pass, p.lastErr)
                ELSE afterMainStep(p, t, p.lastErr)
       IN  /\ pipe' = [pipe EXCEPT ![t] = q]
           /\ obs' = Observe(obs, p, q, t)
    /\ UNCHANGED <<flgs, inventory, invOrder, defaultCommand, chk, batches, mainPc, ret,
                   exitCode, unsched, confirm, done, waitI, crashClosed>>
    /\ UNCHANGED libVars

\* ------------------------------------------ the pipeline's collector, crash

\* A collector that leaves the group after its first result.
afterResultFirst(p, t) ==
    IF p.g < Len(batches[t])
    THEN [p EXCEPT !.pc = "start", !.g = p.g + 1, !.i = 0, !.pend = NilErr]
    ELSE [p EXCEPT !.pc = "done", !.i = p.i + 1, !.pend = NilErr]

\* The collector after it has dealt with one result: after the last result
\* of the group it moves to the next group, or sends on done after the last
\* group (done is buffered for every pipeline, the send never blocks).
afterResult(p, t) ==
    IF p.i + 1 < Cardinality(GroupOf(t, p.g))
    THEN [p EXCEPT !.pc = "collect", !.i = p.i + 1, !.pend = NilErr]
    ELSE IF p.g < Len(batches[t])
         THEN [p EXCEPT !.pc = "start", !.g = p.g + 1, !.i = 0, !.pend = NilErr]
         ELSE [p EXCEPT !.pc = "done", !.i = p.i + 1, !.pend = NilErr]

\* A pipeline that ends without sending on done.
DoneNeverSent(p, q) == 0

\* done <- struct{}{} at the end of the pipeline goroutine: the number of
\* values the step from p to q puts on done.
DoneSent(p, q) == IF q.pc = "done" /\ p.pc # "done" THEN 1 ELSE 0

\* A collector that does not look at res.err.
onResultIgnoreErr(p, t, err) == afterResult(p, t)

\* `if res.err != nil { crash <- res.err }`: with an error the collector
\* blocks sending it on crash (unbuffered), otherwise it goes on.
onResult(p, t, err) ==
    IF err # NilErr THEN [p EXCEPT !.pc = "crash", !.pend = err]
    ELSE afterResult(p, t)

\* res := <-ch in the pipeline goroutine.
Collect(t, h) ==
    /\ Alive
    /\ pipe[t].pc = "collect"
    /\ h \in pipe[t].ch
    /\ LET p == [pipe[t] EXCEPT !.ch = @ \ {h}]
           err == pipe[t].chErr
           q == onResult(p, t, err)
       IN  /\ pipe' = [pipe EXCEPT ![t] = q]
           /\ done' = done + DoneSent(p, q)
           /\ obs' = [obs EXCEPT
                        !.tag[t].collected[p.g] = @ + 1,
                        !.tag[t].okHosts = @ + (IF err = NilErr THEN 1 ELSE 0),
                        !.errs = @ \cup (IF err = NilErr THEN {} ELSE {err}),
                        !.firstErr = IF @ = NilErr THEN err ELSE @]
    /\ UNCHANGED <<flgs, inventory, invOrder, defaultCommand, chk, batches, mainPc, ret,
                   exitCode, unsched, confirm, waitI, crashClosed>>
    /\ UNCHANGED libVars

\* `case <-done` of the final loop of run(); after len(batches) values
\* run() returns nil.
WaitDone ==
    /\ Alive
    /\ mainPc = "wait"
    /\ done > 0
    /\ done' = done - 1
    /\ waitI' = waitI + 1
    /\ IF waitI' = Cardinality(DOMAIN batches)
       THEN Return(NilErr, TRUE)
       ELSE UNCHANGED <<mainPc, ret, crashClosed>>
    /\ UNCHANGED <<flgs, inventory, invOrder, defaultCommand, chk, batches, exitCode,
                   unsched, confirm, pipe, obs>>
    /\ UNCHANGED libVars

\* `case err := <-crash` meets `crash <- res.err` of tag t's pipeline: run()
\* returns err (and its deferred close(crash) runs); the pipeline goes on
\* with its next result.
WaitCrash(t) ==
    /\ Alive
    /\ mainPc = "wait"
    /\ pipe[t].pc = "crash"
    /\ ~crashClosed
    /\ Return(pipe[t].pend, TRUE)
    /\ LET q == afterResult(pipe[t], t)
       IN  /\ pipe' = [pipe EXCEPT ![t] = q]
           /\ done' = done + DoneSent(pipe[t], q)
    /\ UNCHANGED <<flgs, inventory, invOrder, defaultCommand, chk, batches, exitCode,
                   unsched, confirm, waitI, obs>>
    /\ UNCHANGED libVars

\* A pipeline whose send on crash finds the channel closed panics, which
\* ends the process with status 2.
Panic(t) ==
    /\ Alive
    /\ pipe[t].pc = "crash"
    /\ crashClosed
    /\ pipe' = [pipe EXCEPT ![t].pc = "panic"]
    /\ exitCode' = 2
    /\ UNCHANGED <<flgs, inventory, invOrder, defaultCommand, chk, batches, mainPc, ret,
                   unsched, confirm, done, waitI, crashClosed, obs>>
    /\ UNCHANGED libVars

\* main() after run() returned: os.Exit(1) on an error, else "success" and
\* exit status 0.  The goroutines end with the process.
Exit ==
    /\ Alive
    /\ mainPc = "returned"
    /\ exitCode' = IF ret = NilErr THEN 0 ELSE 1
    /\ UNCHANGED <<flgs, inventory, invOrder, defaultCommand, chk, batches, mainPc, ret,
                   unsched, confirm, done, waitI, crashClosed, pipe, obs>>
    /\ UNCHANGED libVars

Next ==
    \/ Setup
    \/ \E t \in InvTags : Schedule(t)
    \/ \E ans \in {"y", "n"} : PromptAnswer(ans)
    \/ \E t \in InvTags : GroupStart(t)
    \/ \E t \in InvTags, h \in AllHosts, code \in {0, 1} : Finish(t, h, code)
    \/ \E t \in InvTags : RunExecReturn(t)
    \/ \E t \in InvTags, h \in AllHosts : Collect(t, h)
    \/ WaitDone
    \/ \E t \in InvTags : WaitCrash(t)
    \/ \E t \in InvTags : Panic(t)
    \/ Exit

Spec == Init /\ [][Next]_vars

\* A run without -p: the scheduling loop never waits for an answer.
InitNoPrompt == Init /\ ~flgs.Prompt

NextNoPrompt ==
    \/ Setup
    \/ \E t \in InvTags : Schedule(t)
    \/ \E t \in InvTags : GroupStart(t)
    \/ \E t \in InvTags, h \in AllHosts, code \in {0, 1} : Finish(t, h, code)
    \/ \E t \in InvTags : RunExecReturn(t)
    \/ \E t \in InvTags, h \in AllHosts : Collect(t, h)
    \/ WaitDone
    \/ \E t \in InvTags : WaitCrash(t)
    \/ \E t \in InvTags : Panic(t)
    \/ Exit

\* The goroutines run when they can: run() itself (set-up, scheduling loop
\* and the select of its wait loop), each pipeline goroutine (the start of a
\* group, the return of runExec, the receive of a result) and each runCmd,
\* whose shell returns.  A pipeline leaves the start of a group and the
\* receive loop of runExec by one step only, so its weak fairness there is
\* that it is not for ever ready to take that step.
FairNoPrompt ==
    /\ WF_vars(Setup)
    /\ WF_vars(\E t \in InvTags : Schedule(t))
    /\ \A t \in InvTags : []<>~(Alive /\ groupReady(t))
    /\ \A t \in InvTags, h \in Hosts :
          WF_vars(\E code \in {0, 1} : Finish(t, h, code))
    /\ \A t \in InvTags :
          []<>~(Alive /\ pipe[t].pc = "wait" /\ receivedAll(pipe[t]))
    /\ \A t \in InvTags : WF_vars(\E h \in Hosts : Collect(t, h))
    /\ WF_vars(WaitDone \/ \E t \in InvTags : WaitCrash(t))

SpecNoPrompt == InitNoPrompt /\ [][NextNoPrompt]_vars /\ FairNoPrompt

NextBatch == Setup

SpecBatch == InitBatch /\ [][NextBatch]_vars

\* ------------------------------------- substituteVariables, looked at alone

\* Longest chain of commands referring to one another that is tried.
MaxDepth == 11

Letter == <<"a", "b", "c", "d", "e", "f", "g", "h", "i", "j", "k", "l", "m", "n">>

\* A guard-free command with the given body lines.
Plain(execs) == [ExecIfs |-> <<>>, Execs |-> execs]

Ref(n) == <<"$">> \o n

\* The table  a: $b   b: $c   ...  (d commands, the last one with body x).
ChainTable(d) ==
    [n \in {<<Letter[i]>> : i \in 1..d} |->
        LET i == CHOOSE j \in 1..d : Letter[j] = n[1]
        IN  Plain(<< IF i < d THEN Ref(<<Letter[i + 1]>>) ELSE <<"x">> >>)]

\* a: "$b $c"   b: $d   c: $d   d: x
DiamondTable ==
    (<<"a">> :> Plain(<< Ref(<<"b">>) \o <<" ">> \o Ref(<<"c">>) >>)) @@
    (<<"b">> :> Plain(<< Ref(<<"d">>) >>)) @@
    (<<"c">> :> Plain(<< Ref(<<"d">>) >>)) @@
    (<<"d">> :> Plain(<< <<"x">> >>))

\* Commands whose bodies refer to themselves: a: $a / a: "x $a" /
\* a: $b, b: $a / a: $b, b: $c, c: $a.
SelfExactTable == (<<"a">> :> Plain(<< Ref(<<"a">>) >>))
SelfTextTable == (<<"a">> :> Plain(<< <<"x", " ">> \o Ref(<<"a">>) >>))
TwoCycleTable ==
    (<<"a">> :> Plain(<< Ref(<<"b">>) >>)) @@ (<<"b">> :> Plain(<< Ref(<<"a">>) >>))
ThreeCycleTable ==
    (<<"a">> :> Plain(<< Ref(<<"b">>) >>)) @@
    (<<"b">> :> Plain(<< Ref(<<"c">>) >>)) @@
    (<<"c">> :> Plain(<< Ref(<<"a">>) >>))

\* g has the guard c and the body gx; c has no guard and two body lines
\* with blanks around them.
GuardTable ==
    (<<"g">> :> [ExecIfs |-> << <<"c">> >>, Execs |-> << <<"g", "x">> >>]) @@
    (<<"c">> :> Plain(<< <<" ", "c", "1">>, <<"c", "2", " ">> >>))

\* Names that are prefixes of one another: a and ab, and s, a prefix of
\* the reserved name server.
PrefixTable ==
    (<<"a">> :> Plain(<< <<"x">> >>)) @@ (<<"a", "b">> :> Plain(<< <<"y">> >>))
ServerPrefixTable ==
    (<<"s">> :> Plain(<< <<"x">> >>)) @@ (<<"a">> :> Plain(<< <<"y">> >>))

ChainTables == {ChainTable(d) : d \in 1..MaxDepth}
AcyclicTables == ChainTables \cup {DiamondTable, GuardTable}
CyclicTables == {SelfExactTable, SelfTextTable, TwoCycleTable, ThreeCycleTable}
SubstTables ==
    AcyclicTables \cup CyclicTables \cup {PrefixTable, ServerPrefixTable}

\* The lines that are expanded.
SubstLines ==
    { Ref(<<"a">>), <<"z", " ">> \o Ref(<<"a">>), Ref(<<"g">>), Ref(<<"c">>),
      Ref(<<"a", "b">>), <<"e", " ">> \o Ref(server),
      <<"d", " ">> \o Ref(checksum) }

\* The runtime variables that are tried.
SubstVars == {<<>>, Vars}

\* The subsequence of order made of the elements of S.
RECURSIVE Restrict(_, _)
Restrict(order, S) ==
    IF order = <<>> THEN <<>>
    ELSE (IF Head(order) \in S THEN <<Head(order)>> ELSE <<>>)
             \o Restrict(Tail(order), S)

\* The orders in which a table (with the pseudo-commands) is enumerated:
\* every order for a small table, one order for a large one.
SubstOrders(cmds) ==
    LET names == DOMAIN cmds \cup {server, checksum}
    IN  IF Cardinality(DOMAIN cmds) <= 2 THEN Perms(names) ELSE {SetToSeq(names)}

\* What runExecIfs, runExec and runCmd make of one main line of the Upfile
\* for host h: the line is substituted with the shared table, split at
\* newlines, and each piece is substituted again by runCmd with the
\* pseudo-commands.  A guard line is only substituted by runCmd.
shellLines(vs, cmds, order, chkv, h, main, line) ==
    LET own == runCmdCmds(runExecCmds(cmds, chkv), h)
        viaRunCmd(l) ==
            substituteWith(vs, own, Restrict(order, DOMAIN own),
                           SetToSeq(DOMAIN vs), l)
        first == substituteWith(vs, cmds, Restrict(order, DOMAIN cmds),
                                SetToSeq(DOMAIN vs), line)
    IN  IF ~main THEN <<viaRunCmd(line)>>
        ELSE IF first.err # "nil" THEN <<first>>
        ELSE LET pieces == SplitLines(first.out)
             IN  [i \in 1..Len(pieces) |-> viaRunCmd(pieces[i])]

InitSubst ==
    /\ \E cmds \in SubstTables :
         sub \in [st : {"call"}, kind : {"subst", "main", "guard"},
                  cmds : {cmds}, vs : SubstVars, order : SubstOrders(cmds),
                  line : SubstLines, host : 1..2, res : {<<>>}]
    /\ sub.kind = "subst" => sub.host = 1
    /\ heap = <<>>
    /\ rc = <<>>
    /\ text = <<>>
    /\ parsed = NotParsed
    /\ lx = NoLex
    /\ flgs = [Command |-> <<>>, Tags |-> {}, Serial |-> 1, Prompt |-> FALSE]
    /\ inventory = RunInventory
    /\ invOrder = Ascending(NumHosts)
    /\ InitRest

\* One call substituteVariables(vars, cmds, cmd).
Substitute ==
    /\ sub.st = "call"
    /\ sub.kind = "subst"
    /\ sub' = [sub EXCEPT !.st = "ret",
                 !.res = <<substituteWith(sub.vs, sub.cmds,
                                          Restrict(sub.order, DOMAIN sub.cmds),
                                          SetToSeq(DOMAIN sub.vs), sub.line)>>]
    /\ UNCHANGED <<runVars, heap, rc, text, parsed, lx>>

\* One line of the Upfile is made into the shell lines of host sub.host.
Dispatch ==
    /\ sub.st = "call"
    /\ sub.kind \in {"main", "guard"}
    /\ sub' = [sub EXCEPT !.st = "ret",
                 !.res = shellLines(sub.vs, sub.cmds, sub.order, Chk, sub.host,
                                    sub.kind = "main", sub.line)]
    /\ UNCHANGED <<runVars, heap, rc, text, parsed, lx>>

NextSubst == Substitute \/ Dispatch

SpecSubst == InitSubst /\ [][NextSubst]_vars

\* ---------------------------------- one runExec and its runCmd goroutines

\* Number of hosts of the group of the runExec that is looked at.
NumCopyHosts == 3

CopyHosts == 1..NumCopyHosts

\* The reference of the shared table conf.Commands in the heap.
SharedRef == 0

\* The lines runExec is called with.
CopyLines ==
    { <<"e", " ">> \o Ref(server), <<"d", " ">> \o Ref(checksum),
      Ref(checksum) \o <<" ">> \o Ref(server) }

\* A copyCommands that returns the map it was given.
copyCommandsAlias(hp, m1) == [heap |-> hp, ref |-> m1]

\* copyCommands(m1): a new map m2 with the entries of m1; maps are
\* references into the heap.
copyCommands(hp, m1) ==
    LET m2 == Len(hp)
    IN  [heap |-> Append(hp, hp[m1 + 1]), ref |-> m2]

\* cmds[name] = &up.Cmd{Execs: []string{value}} on the map with reference m.
putCmd(hp, m, name, value) ==
    [hp EXCEPT ![m + 1] = WithPseudo(@, name, value)]

\* The maps of the heap are numbered from 0.
Deref(hp, m) == hp[m + 1]

InitCopies ==
    /\ heap = <<Commands>>
    /\ rc \in [pc : {"call"}, line : CopyLines, ref : {SharedRef},
               task : {<<>>}]
    /\ sub = NoSub
    /\ text = <<>>
    /\ parsed = NotParsed
    /\ lx = NoLex
    /\ flgs = [Command |-> <<>>, Tags |-> {}, Serial |-> 1, Prompt |-> FALSE]
    /\ inventory = RunInventory
    /\ invOrder = Ascending(NumHosts)
    /\ InitRest

\* runExec: its own copy of the table, the pseudo-command checksum, and one
\* runCmd goroutine per server, each given runExec's map.
RunExecCall ==
    /\ rc.pc = "call"
    /\ LET c == copyCommands(heap, rc.ref)
       IN  /\ heap' = putCmd(c.heap, c.ref, checksum, Chk)
           /\ rc' = [rc EXCEPT !.pc = "wait", !.ref = c.ref,
                        !.task = [h \in CopyHosts |->
                                     [pc |-> "copy", ref |-> c.ref,
                                      out |-> <<>>, err |-> "nil"]]]
    /\ UNCHANGED <<runVars, sub, text, parsed, lx>>

\* runCmd of host h: cmds = copyCommands(cmds)
RunCmdCopy(h) ==
    /\ rc.pc = "wait"
    /\ rc.task[h].pc = "copy"
    /\ LET c == copyCommands(heap, rc.task[h].ref)
       IN  /\ heap' = c.heap
           /\ rc' = [rc EXCEPT !.task[h].pc = "put", !.task[h].ref = c.ref]
    /\ UNCHANGED <<runVars, sub, text, parsed, lx>>

\* runCmd of host h: cmds["server"] = &up.Cmd{Execs: []string{server}}
RunCmdPut(h) ==
    /\ rc.pc = "wait"
    /\ rc.task[h].pc = "put"
    /\ heap' = putCmd(heap, rc.task[h].ref, server, HostName(h))
    /\ rc' = [rc EXCEPT !.task[h].pc = "subst"]
    /\ UNCHANGED <<runVars, sub, text, parsed, lx>>

\* runCmd of host h: cmd, err := substituteVariables(vars, cmds, cmd)
RunCmdSubst(h) ==
    /\ rc.pc = "wait"
    /\ rc.task[h].pc = "subst"
    /\ LET r == substituteVariables(Vars, Deref(heap, rc.task[h].ref), rc.line)
       IN  rc' = [rc EXCEPT !.task[h].pc = "done", !.task[h].out = r.out,
                            !.task[h].err = r.err]
    /\ UNCHANGED <<runVars, sub, heap, text, parsed, lx>>

NextCopies ==
    \/ RunExecCall
    \/ \E h \in CopyHosts : RunCmdCopy(h)
    \/ \E h \in CopyHosts : RunCmdPut(h)
    \/ \E h \in CopyHosts : RunCmdSubst(h)

SpecCopies == InitCopies /\ [][NextCopies]_vars

\* ------------------------------------------------------------- the lexer

Tkn(typ, val) == [typ |-> typ, val |-> val]

Keyword == <<"i", "n", "v", "e", "n", "t", "o", "r", "y">>

isEndOfLine(r) == r \in {"\r", "\n"}

\* lexSpace: the run of blanks that starts at pos ends before SpaceEnd.
RECURSIVE SpaceEnd(_, _)
SpaceEnd(s, pos) ==
    IF pos <= Len(s) /\ s[pos] = " " THEN SpaceEnd(s, pos + 1) ELSE pos

\* lexText (with lexSpace): the tokens emitted from the state where the
\* pending text starts at start and the next rune to read is at pos (both
\* counted from 1).  emit takes input[start:pos] as the token's value.
RECURSIVE lexText(_, _, _)
lexText(s, start, pos) ==
    LET txt == SubSeq(s, start, pos - 1)
        pending == IF Len(txt) > 0 THEN <<Tkn("Text", txt)>> ELSE <<>>
    IN  IF pos > Len(s) THEN pending \o <<Tkn("EOF", <<>>)>>
        ELSE IF s[pos] = "#"
        THEN <<Tkn("Comment", SubSeq(s, start, pos))>> \o lexText(s, pos + 1, pos + 1)
        ELSE IF txt = Keyword
        THEN <<Tkn("Inventory", txt)>> \o lexText(s, pos, pos)
        ELSE IF isEndOfLine(s[pos])
        THEN pending \o <<Tkn("Newline", <<s[pos]>>)>> \o lexText(s, pos + 1, pos + 1)
        ELSE IF s[pos] = " "
        THEN LET e == SpaceEnd(s, pos)
             IN  pending \o <<Tkn("Space", SubSeq(s, pos, e - 1))>> \o lexText(s, e, e)
        ELSE IF s[pos] = "\t"
        THEN <<Tkn("Tab", SubSeq(s, start, pos))>> \o lexText(s, pos + 1, pos + 1)
        ELSE lexText(s, start, pos + 1)

\* lex(input): every token the lexing goroutine delivers, in order.
lex(input) == lexText(input, 1, 1)

\* nextToken: the i-th token; a receive from the closed channel gives the
\* zero token, whose type is tokenError.
nextToken(toks, i) == IF i <= Len(toks) THEN toks[i] ELSE Tkn("Error", <<>>)

\* nextNonSpace: the index of the first token from i on that is no Space.
RECURSIVE nextNonSpace(_, _)
nextNonSpace(toks, i) ==
    IF nextToken(toks, i).typ = "Space" THEN nextNonSpace(toks, i + 1) ELSE i

\* ------------------------------------------------------------ the parser

\* The Config parse starts with.
EmptyConf == [Commands |-> <<>>, Inventory |-> <<>>, DefaultCommand |-> <<>>]

\* What the parser's functions return: nil with the Config so far, or an
\* error with the name it reports.  "undefined" stands for the outcomes of
\* the parser calling lex.backup() while the lexing goroutine runs.
ParseOk(conf) == [st |-> "ok", err |-> "nil", name |-> <<>>, conf |-> conf]
ParseErr(err, name) == [st |-> "err", err |-> err, name |-> name, conf |-> EmptyConf]

\* The result r of t.parse() with the number n of tokens it has received.
Received(r, n) == r @@ [n |-> n]

\* The first command line always sets DefaultCommand.
setDefaultAlways(conf, name) == [conf EXCEPT !.DefaultCommand = name]

\* if len(t.Commands) == 0 { t.DefaultCommand = name }
setDefault(conf, name) ==
    IF DOMAIN conf.Commands = {} THEN [conf EXCEPT !.DefaultCommand = name] ELSE conf

\* The first loop of commandControl: the guards of the header line up to
\* its newline; i is the index of the next token to read, also in what the
\* loop returns.
RECURSIVE headerLoop(_, _, _)
headerLoop(toks, i, execIfs) ==
    LET tkn == nextToken(toks, i)
    IN  CASE tkn.typ = "Text" -> headerLoop(toks, i + 1, Append(execIfs, tkn.val))
          [] tkn.typ = "Newline" -> [err |-> "nil", i |-> i + 1, ExecIfs |-> execIfs]
          [] tkn.typ = "Space" -> headerLoop(toks, i + 1, execIfs)
          [] tkn.typ = "EOF" ->
                [err |-> "unexpected eof in command line", i |-> i + 1,
                 ExecIfs |-> execIfs]
          [] OTHER ->
                [err |-> "unexpected command token", i |-> i + 1, ExecIfs |-> execIfs]

\* The second loop of commandControl: the body lines, up to the token that
\* ends the command (a text or space that is not indented, or EOF), which
\* is returned as tkn with the index of the token after it.
RECURSIVE bodyLoop(_, _, _, _, _)
bodyLoop(toks, i, indented, line, execs) ==
    LET tkn == nextToken(toks, i)
    IN  CASE tkn.typ = "Newline" ->
                bodyLoop(toks, i + 1, FALSE, <<>>,
                         IF line # <<>> THEN Append(execs, line) ELSE execs)
          [] tkn.typ = "Tab" ->
                IF indented
                THEN IF nextToken(toks, i + 1).typ = "Newline"
                     THEN [err |-> "undefined", i |-> i + 2, tkn |-> tkn,
                           Execs |-> execs]
                     ELSE [err |-> "unexpected double indent", i |-> i + 2,
                           tkn |-> tkn, Execs |-> execs]
                ELSE bodyLoop(toks, i + 1, TRUE, line, execs)
          [] tkn.typ \in {"Text", "Space"} ->
                IF ~indented
                THEN [err |-> "nil", i |-> i + 1, tkn |-> tkn, Execs |-> execs]
                ELSE bodyLoop(toks, i + 1, indented, line \o tkn.val, execs)
          [] tkn.typ = "EOF" ->
                [err |-> "nil", i |-> i + 1, tkn |-> tkn, Execs |-> execs]
          [] OTHER -> [err |-> "unexpected", i |-> i + 1, tkn |-> tkn, Execs |-> execs]

\* The loop of inventoryControl: the indented entries of one inventory.
RECURSIVE invLoop(_, _, _, _)
invLoop(toks, i, indented, inv) ==
    LET tkn == nextToken(toks, i)
    IN  CASE tkn.typ = "Newline" -> invLoop(toks, i + 1, FALSE, inv)
          [] tkn.typ = "Tab" ->
                IF indented
                THEN [err |-> "unexpected double indent", i |-> i + 1, tkn |-> tkn,
                      inv |-> inv]
                ELSE invLoop(toks, i + 1, TRUE, inv)
          [] tkn.typ = "Text" ->
                IF ~indented
                THEN [err |-> "nil", i |-> i + 1, tkn |-> tkn, inv |-> inv]
                ELSE invLoop(toks, i + 1, indented, Append(inv, tkn.val))
          [] tkn.typ = "Inventory" ->
                [err |-> "nil", i |-> i + 1, tkn |-> tkn, inv |-> inv]
          [] OTHER -> [err |-> "unexpected 1", i |-> i + 1, tkn |-> tkn, inv |-> inv]

RECURSIVE nextControl(_, _, _, _)
RECURSIVE commandControl(_, _, _, _)
RECURSIVE inventoryControl(_, _, _)

\* nextControl(tkn), with i the index of the next token to read.
nextControl(conf, toks, i, tkn) ==
    CASE tkn.typ = "Inventory" -> inventoryControl(conf, toks, i)
      [] tkn.typ = "EOF" -> Received(ParseOk(conf), i - 1)
      [] OTHER -> commandControl(conf, toks, i, tkn.val)

commandControl(conf, toks, i, name) ==
    LET conf1 == setDefault(conf, name)
    IN  IF name \in DOMAIN conf1.Commands
        THEN Received(ParseErr("duplicate command", name), i - 1)
        ELSE LET hd == headerLoop(toks, i, <<>>)
             IN  IF hd.err # "nil" THEN Received(ParseErr(hd.err, name), hd.i - 1)
                 ELSE LET bd == bodyLoop(toks, hd.i, FALSE, <<>>, <<>>)
                      IN  IF bd.err # "nil"
                          THEN Received(ParseErr(bd.err, name), bd.i - 1)
                          ELSE IF Len(bd.Execs) = 0
                          THEN Received(ParseErr("nothing to exec for", name), bd.i - 1)
                          ELSE nextControl(
                                  [conf1 EXCEPT !.Commands =
                                      (name :> [ExecIfs |-> hd.ExecIfs,
                                                Execs |-> bd.Execs]) @@ @],
                                  toks, bd.i, bd.tkn)

inventoryControl(conf, toks, i) ==
    LET j == nextNonSpace(toks, i)
        curInvName == nextToken(toks, j).val
        k == nextNonSpace(toks, j + 1)
    IN  IF nextToken(toks, k).typ # "Newline"
        THEN Received(ParseErr("expected newline", curInvName), k)
        ELSE LET lp == invLoop(toks, k + 1, FALSE, <<>>)
             IN  IF lp.err # "nil" THEN Received(ParseErr(lp.err, curInvName), lp.i - 1)
                 ELSE IF Len(lp.inv) = 0
                 THEN Received(ParseErr("empty inventory", curInvName), lp.i - 1)
                 ELSE nextControl(
                         [conf EXCEPT !.Inventory = (curInvName :> lp.inv) @@ @],
                         toks, lp.i, lp.tkn)

\* checkExecIfs without the test for a command that is its own guard.
RECURSIVE checkExecIfsNoSelf(_, _, _)
checkExecIfsNoSelf(cmds, cmdName, execIfs) ==
    IF execIfs = <<>> THEN ParseErr("nil", <<>>)
    ELSE IF Head(execIfs) \notin DOMAIN cmds THEN ParseErr("is undefined", Head(execIfs))
    ELSE checkExecIfsNoSelf(cmds, cmdName, Tail(execIfs))

\* The check of one command's guards in parse: the first guard that is the
\* command itself or that no command defines.
RECURSIVE checkExecIfs(_, _, _)
checkExecIfs(cmds, cmdName, execIfs) ==
    IF execIfs = <<>> THEN ParseErr("nil", <<>>)
    ELSE IF Head(execIfs) = cmdName THEN ParseErr("depends on itself", Head(execIfs))
    ELSE IF Head(execIfs) \notin DOMAIN cmds THEN ParseErr("is undefined", Head(execIfs))
    ELSE checkExecIfs(cmds, cmdName, Tail(execIfs))

\* parse without its validation loop.
validateNothing(conf, order) == ParseOk(conf)

\* The validation loop of parse, ranging over the commands in order.
RECURSIVE validate(_, _)
validate(conf, order) ==
    IF order = <<>> THEN ParseOk(conf)
    ELSE LET c == checkExecIfs(conf.Commands, Head(order),
                               conf.Commands[Head(order)].ExecIfs)
         IN  IF c.err # "nil" THEN c ELSE validate(conf, Tail(order))

\* t.parse(): nextControl(nextNonSpace())
parseTokens(input) ==
    LET toks == lex(input)
        i == nextNonSpace(toks, 1)
    IN  nextControl(EmptyConf, toks, i + 1, nextToken(toks, i))

\* parse(text) when the validation loop ranges over the command map in
\* the given order.
parseWith(input, order) ==
    LET r == parseTokens(input)
    IN  IF r.st # "ok" THEN r ELSE Received(validate(r.conf, order), r.n)

\* Largest number of lines of the Upfiles that are parsed.
MaxLines == 4

TAB == "\t"

\* The lines the Upfiles are made of: command lines (a; b; a with guard b;
\* a with guard a; b with the undefined guard c; b after a blank), body
\* lines, the empty line and an inventory line.
ParseLines ==
    { <<"a">>, <<"b">>, <<"a", " ", "b">>, <<"a", " ", "a">>, <<"b", " ", "c">>,
      <<" ", "b">>, <<TAB, "x">>, <<TAB, "x", " ", " ", "y">>, <<>>,
      Keyword \o <<" ", "p">> }

\* The lines, each followed by a newline, except the last one when final is
\* false.
RECURSIVE JoinLines(_, _)
JoinLines(ls, final) ==
    IF ls = <<>> THEN <<>>
    ELSE Head(ls) \o (IF Len(ls) > 1 \/ final THEN <<NL>> ELSE <<>>)
             \o JoinLines(Tail(ls), final)

ParseTexts ==
    UNION {{JoinLines(ls, final) : ls \in [1..n -> ParseLines], final \in BOOLEAN}
              : n \in 0..MaxLines}

\* The text of a command table: for each command, in the given order, its
\* name and guards separated by one blank, then its Execs, one per line
\* after a tab.
RECURSIVE printGuards(_)
printGuards(execIfs) ==
    IF execIfs = <<>> THEN <<>>
    ELSE <<" ">> \o Head(execIfs) \o printGuards(Tail(execIfs))

RECURSIVE printExecs(_)
printExecs(execs) ==
    IF execs = <<>> THEN <<>>
    ELSE <<TAB>> \o Head(execs) \o <<NL>> \o printExecs(Tail(execs))

RECURSIVE printCommands(_, _)
printCommands(cmds, order) ==
    IF order = <<>> THEN <<>>
    ELSE LET n == Head(order)
         IN  n \o printGuards(cmds[n].ExecIfs) \o <<NL>> \o printExecs(cmds[n].Execs)
               \o printCommands(cmds, Tail(order))

InitParse ==
    /\ text \in ParseTexts
    /\ parsed = NotParsed
    /\ lx = NoLex
    /\ sub = NoSub
    /\ heap = <<>>
    /\ rc = <<>>
    /\ flgs = [Command |-> <<>>, Tags |-> {}, Serial |-> 1, Prompt |-> FALSE]
    /\ inventory = RunInventory
    /\ invOrder = Ascending(NumHosts)
    /\ InitRest

\* The command table parse would validate for input (none on an error).
TableOf(input) == parseTokens(input).conf.Commands

\* parse(text): the validation ranges over the command map in some order.
Parse ==
    /\ parsed.st = "none"
    /\ \E order \in Perms(DOMAIN TableOf(text)) :
          parsed' = parseWith(text, order) @@ [from |-> <<>>]
    /\ UNCHANGED <<runVars, sub, heap, rc, text, lx>>

\* The table of a successful parse is printed, its commands in some order,
\* and the text is parsed again.
Reparse ==
    /\ parsed.st = "ok"
    /\ parsed.from = <<>>
    /\ \E porder \in Perms(DOMAIN parsed.conf.Commands) :
          /\ text' = printCommands(parsed.conf.Commands, porder)
          /\ \E order \in Perms(DOMAIN TableOf(text')) :
                parsed' = parseWith(text', order) @@ [from |-> <<parsed.conf>>]
    /\ UNCHANGED <<runVars, sub, heap, rc, lx>>

NextParse == Parse \/ Reparse

SpecParse == InitParse /\ [][NextParse]_vars

\* --------------------------------- parse and its lexing goroutine, as tasks

\* Largest number of lines of the Upfiles whose lexing goroutine is followed.
MaxLexLines == 3

\* Their lines: those of ParseLines, a line of two tabs and a line whose
\* word starts with the keyword.
LexLines == ParseLines \cup {<<TAB, TAB>>, Keyword \o <<"x">>}

LexTexts ==
    UNION {{JoinLines(ls, final) : ls \in [1..n -> LexLines], final \in BOOLEAN}
              : n \in 0..MaxLexLines}

\* lex(text) has started the goroutine l.run(), which will emit len tokens;
\* t.parse() has received nothing yet and will return res.
InitLex ==
    /\ text \in LexTexts
    /\ parsed = NotParsed
    /\ lx = [pc |-> "parse", got |-> 0, closed |-> FALSE,
             len |-> Len(lex(text)), res |-> parseTokens(text)]
    /\ sub = NoSub
    /\ heap = <<>>
    /\ rc = <<>>
    /\ flgs = [Command |-> <<>>, Tags |-> {}, Serial |-> 1, Prompt |-> FALSE]
    /\ inventory = RunInventory
    /\ invOrder = Ascending(NumHosts)
    /\ InitRest

\* parse after t.parse() returned r, without the drain of its error branch.
afterParseNoDrain(r) == "returned"

\* parse after t.parse() returned r: on an error the tokens are drained
\* before parse returns.
afterParse(r) == IF r.st # "ok" THEN "drain" ELSE "returned"

\* l.tokens <- tkn in emit meets <-l.tokens in nextToken: t.parse() receives
\* the next token it asks for.
Emit ==
    /\ lx.pc = "parse"
    /\ lx.got < lx.res.n
    /\ lx.got < lx.len
    /\ lx' = [lx EXCEPT !.got = @ + 1]
    /\ UNCHANGED <<runVars, sub, heap, rc, text, parsed>>

\* lexText has emitted EOF and returned nil: l.run() closes the channel.
Close ==
    /\ lx.pc # "none"
    /\ ~lx.closed
    /\ lx.got = lx.len
    /\ lx' = [lx EXCEPT !.closed = TRUE]
    /\ UNCHANGED <<runVars, sub, heap, rc, text, parsed>>

\* t.parse() returns after the last token it asked for; parse drains on an
\* error, else validates (in some order of the command map) and returns.
\* After the parser has called l.backup() while the goroutine runs, the
\* process may die of the goroutine's panic, or parse goes on to its end.
ParseReturns ==
    /\ lx.pc = "parse"
    /\ lx.got = lx.res.n
    /\ \/ /\ lx.res.err = "undefined"
          /\ lx' = [lx EXCEPT !.pc = "crashed"]
          /\ UNCHANGED parsed
       \/ /\ lx' = [lx EXCEPT !.pc = afterParse(lx.res)]
          /\ \E order \in Perms(DOMAIN lx.res.conf.Commands) :
                parsed' = (IF lx.res.st # "ok" THEN lx.res
                           ELSE Received(validate(lx.res.conf, order), lx.res.n))
                              @@ [from |-> <<>>]
    /\ UNCHANGED <<runVars, sub, heap, rc, text>>

\* for range l.tokens in drain: one more token is received.
Drain ==
    /\ lx.pc = "drain"
    /\ lx.got < lx.len
    /\ lx' = [lx EXCEPT !.got = @ + 1]
    /\ UNCHANGED <<runVars, sub, heap, rc, text, parsed>>

\* drain finds the channel closed; parse returns its error.
DrainEnd ==
    /\ lx.pc = "drain"
    /\ lx.closed
    /\ lx' = [lx EXCEPT !.pc = "returned"]
    /\ UNCHANGED <<runVars, sub, heap, rc, text, parsed>>

NextLex == Emit \/ Close \/ ParseReturns \/ Drain \/ DrainEnd

\* The lexing goroutine and a draining parse run when they can.
SpecLex ==
    InitLex /\ [][NextLex]_vars
        /\ WF_vars(Close) /\ WF_vars(Drain) /\ WF_vars(DrainEnd)

\* ------------- the lexing goroutine and the parser, statement by statement

\* The Upfiles whose lexing is followed statement by statement: a command
\* with a body line, then a line of two tabs, then nothing, a further body
\* line or a further command; and an Upfile without such a line.  They hold
\* no inventory.
RaceTexts ==
    { JoinLines(<<<<"a">>, <<TAB, "x", " ", "y">>>>, TRUE),
      JoinLines(<<<<"a">>, <<TAB, "x">>, <<TAB, TAB>>>>, TRUE),
      JoinLines(<<<<"a">>, <<TAB, "x">>, <<TAB, TAB>>, <<TAB, "y">>>>, TRUE),
      JoinLines(<<<<"a">>, <<TAB, "x">>, <<TAB, TAB>>, <<"b">>, <<TAB, "z">>>>, TRUE) }

\* Largest number of calls of t.lex.backup() by the parser that is followed.
MaxBackups == 2

\* What the lexing goroutine has still to do, as a list of statements.
Op(k, typ) == [k |-> k, typ |-> typ]

\* emit(t): the token is made of input[start:pos], sent, and start = pos.
emitOps(typ) == <<Op("mk", typ), Op("send", ""), Op("setstart", "")>>

\* The switch of lexText on the rune r (eof is the empty string) with the
\* pending text txt: the statements of the case that is taken, up to the
\* next turn of the loop.
lexSwitch(r, txt) ==
    CASE r = "" -> <<Op("endtext", "")>> \o emitOps("EOF") \o <<Op("close", "")>>
      [] r = "#" -> emitOps("Comment") \o <<Op("top", "")>>
      [] r # "" /\ r # "#" /\ txt = Keyword ->
            <<Op("backup", "")>> \o emitOps("Inventory") \o <<Op("top", "")>>
      [] r # "#" /\ txt # Keyword /\ isEndOfLine(r) ->
            <<Op("backup", ""), Op("emitIf", ""), Op("next", "skip")>>
                \o emitOps("Newline") \o <<Op("top", "")>>
      [] r = " " /\ txt # Keyword ->
            <<Op("backup", ""), Op("emitIf", ""), Op("space", "")>>
                \o emitOps("Space") \o <<Op("top", "")>>
      [] r = TAB /\ txt # Keyword -> emitOps("Tab") \o <<Op("top", "")>>
      [] OTHER -> <<Op("top", "")>>

\* The parser at the start of parse: nextNonSpace of t.parse().
ParserStart ==
    [mode |-> "first", indented |-> FALSE, line |-> <<>>, nexecs |-> 0,
     names |-> {}, tmp |-> 0, nback |-> 0]

\* nextControl(tkn) and the start of commandControl(name); the name is in
\* t.Commands by the time the next name is looked up.
controlStep(ps, tkn) ==
    IF tkn.typ = "EOF" THEN [ps EXCEPT !.mode = "returned"]
    ELSE IF tkn.val \in ps.names THEN [ps EXCEPT !.mode = "drain"]
    ELSE [ps EXCEPT !.mode = "header", !.names = @ \cup {tkn.val}]

\* The end of commandControl with the token that ended the body.
endCommand(ps, tkn) ==
    IF ps.nexecs = 0 THEN [ps EXCEPT !.mode = "drain"] ELSE controlStep(ps, tkn)

\* The parser receives tkn: one turn of the loop it is in (nextNonSpace, the
\* header loop or the body loop of commandControl, or the nextToken after a
\* second tab).  An error makes parse drain the tokens.
parserStep(ps, tkn) ==
    CASE ps.mode = "first" ->
            IF tkn.typ = "Space" THEN ps ELSE controlStep(ps, tkn)
      [] ps.mode = "header" ->
            IF tkn.typ \in {"Text", "Space"} THEN ps
            ELSE IF tkn.typ = "Newline"
            THEN [ps EXCEPT !.mode = "body", !.indented = FALSE, !.line = <<>>,
                            !.nexecs = 0]
            ELSE [ps EXCEPT !.mode = "drain"]
      [] ps.mode = "body" ->
            CASE tkn.typ = "Newline" ->
                    [ps EXCEPT !.indented = FALSE, !.line = <<>>,
                               !.nexecs = @ + (IF ps.line # <<>> THEN 1 ELSE 0)]
              [] tkn.typ = "Tab" ->
                    IF ps.indented THEN [ps EXCEPT !.mode = "peek"]
                    ELSE [ps EXCEPT !.indented = TRUE]
              [] tkn.typ \in {"Text", "Space"} ->
                    IF ~ps.indented THEN endCommand(ps, tkn)
                    ELSE [ps EXCEPT !.line = @ \o tkn.val]
              [] tkn.typ = "EOF" -> endCommand(ps, tkn)
              [] OTHER -> [ps EXCEPT !.mode = "drain"]
      [] ps.mode = "peek" ->
            IF tkn.typ = "Newline" THEN [ps EXCEPT !.mode = "backup"]
            ELSE [ps EXCEPT !.mode = "drain"]

\* lex(text) has started l.run() at lexText; t.parse() has received nothing.
InitRace ==
    /\ text \in RaceTexts
    /\ parsed = NotParsed
    /\ lx = [pc |-> "run", start |-> 0, pos |-> 0, width |-> 0, txt |-> <<>>,
             todo |-> <<Op("top", "")>>, out |-> Tkn("Error", <<>>),
             closed |-> FALSE, panicked |-> FALSE, got |-> <<>>,
             ps |-> ParserStart]
    /\ sub = NoSub
    /\ heap = <<>>
    /\ rc = <<>>
    /\ flgs = [Command |-> <<>>, Tags |-> {}, Serial |-> 1, Prompt |-> FALSE]
    /\ inventory = RunInventory
    /\ invOrder = Ascending(NumHosts)
    /\ InitRest

\* l.next(): the rune at pos (eof past the end), with the scanning state
\* after it.
lexNext(l) ==
    IF l.pos >= Len(text) THEN [r |-> "", l |-> [l EXCEPT !.width = 0]]
    ELSE [r |-> text[l.pos + 1], l |-> [l EXCEPT !.width = 1, !.pos = @ + 1]]

\* A slice input[start:pos] with start > pos panics, which ends the process.
lexPanic(l) == [l EXCEPT !.panicked = TRUE, !.todo = <<>>]

\* One statement of the lexing goroutine other than the send of a token.
LexerStep ==
    /\ lx.pc = "run"
    /\ ~lx.panicked
    /\ lx.todo # <<>>
    /\ Head(lx.todo).k # "send"
    /\ LET op == Head(lx.todo)
           l == [lx EXCEPT !.todo = Tail(@)]
       IN  lx' =
             CASE op.k = "top" ->
                    IF l.start > l.pos THEN lexPanic(l)
                    ELSE [l EXCEPT !.txt = SubSeq(text, l.start + 1, l.pos),
                                   !.todo = <<Op("next", "")>> \o @]
               [] op.k = "next" ->
                    LET n == lexNext(l)
                    IN  IF op.typ = "skip" THEN n.l
                        ELSE [n.l EXCEPT !.todo = lexSwitch(n.r, l.txt) \o @]
               [] op.k = "backup" -> [l EXCEPT !.pos = @ - l.width]
               [] op.k = "emitIf" ->
                    IF Len(l.txt) > 0 THEN [l EXCEPT !.todo = emitOps("Text") \o @]
                    ELSE l
               [] op.k = "endtext" ->
                    IF l.pos > l.start THEN [l EXCEPT !.todo = emitOps("Text") \o @]
                    ELSE l
               [] op.k = "space" ->
                    LET e == SpaceEnd(text, l.pos + 1) - 1
                    IN  [l EXCEPT !.pos = e,
                                  !.width = IF e >= Len(text) THEN 0 ELSE 1]
               [] op.k = "mk" ->
                    IF l.start > l.pos THEN lexPanic(l)
                    ELSE [l EXCEPT !.out = Tkn(op.typ, SubSeq(text, l.start + 1, l.pos))]
               [] op.k = "setstart" -> [l EXCEPT !.start = l.pos]
               [] op.k = "close" -> [l EXCEPT !.closed = TRUE]
    /\ UNCHANGED <<runVars, sub, heap, rc, text, parsed>>

\* l.tokens <- tkn meets <-l.tokens of nextToken: the parser receives the
\* token and takes its turn of the loop it is in.
Deliver ==
    /\ lx.pc = "run"
    /\ ~lx.panicked
    /\ lx.todo # <<>>
    /\ Head(lx.todo).k = "send"
    /\ lx.ps.mode \in {"first", "header", "body", "peek"}
    /\ lx' = [lx EXCEPT !.todo = Tail(@), !.got = Append(@, lx.out),
                        !.ps = parserStep(@, lx.out)]
    /\ UNCHANGED <<runVars, sub, heap, rc, text, parsed>>

\* t.lex.backup() called by the parser, l.pos -= l.width: pos and width are
\* read ...
BackupRead ==
    /\ lx.pc = "run"
    /\ ~lx.panicked
    /\ lx.ps.mode = "backup"
    /\ lx.ps.nback < MaxBackups
    /\ lx' = [lx EXCEPT !.ps.mode = "write", !.ps.tmp = lx.pos - lx.width,
                        !.ps.nback = @ + 1]
    /\ UNCHANGED <<runVars, sub, heap, rc, text, parsed>>

\* ... and pos is written; the body loop goes on (continue).
BackupWrite ==
    /\ lx.pc = "run"
    /\ ~lx.panicked
    /\ lx.ps.mode = "write"
    /\ lx' = [lx EXCEPT !.ps.mode = "body", !.pos = lx.ps.tmp]
    /\ UNCHANGED <<runVars, sub, heap, rc, text, parsed>>

\* for range l.tokens in drain: a token is received and dropped.
Discard ==
    /\ lx.pc = "run"
    /\ ~lx.panicked
    /\ lx.ps.mode = "drain"
    /\ lx.todo # <<>>
    /\ Head(lx.todo).k = "send"
    /\ lx' = [lx EXCEPT !.todo = Tail(@)]
    /\ UNCHANGED <<runVars, sub, heap, rc, text, parsed>>

\* drain finds the channel closed and parse returns its error.
Drained ==
    /\ lx.pc = "run"
    /\ ~lx.panicked
    /\ lx.ps.mode = "drain"
    /\ lx.closed
    /\ lx' = [lx EXCEPT !.ps.mode = "returned"]
    /\ UNCHANGED <<runVars, sub, heap, rc, text, parsed>>

NextRace ==
    LexerStep \/ Deliver \/ BackupRead \/ BackupWrite \/ Discard \/ Drained

SpecRace == InitRace /\ [][NextRace]_vars

\* =================================================================== claims

RECURSIVE SumLen(_, _)
SumLen(names, cmds) ==
    IF names = <<>> THEN 0
    ELSE Len(cmds[Head(names)].Execs) + SumLen(Tail(names), cmds)

\* The number of guard lines of the command that is run.
NumGuardLines == SumLen(TheCmd.ExecIfs, Commands)

\* The group the observations of tag t are about.
ObsGroup(t) == GroupOf(t, obs.tag[t].g)

\* Tag t's pipeline is in a group.
InGroup(t) == obs.tag[t].g >= 1

\* runExecIfs has returned for the group of tag t: its results are sent.
Returned(t) == InGroup(t) /\ pipe[t].pc # "wait"

\* Every line of every guard has exited zero on every host of t's group.
AllGuardsZero(t) ==
    /\ InGroup(t)
    /\ Len(TheCmd.ExecIfs) > 0
    /\ obs.tag[t].gZero = NumGuardLines * Cardinality(ObsGroup(t))

\* The hosts of tag t with a shell command in flight.
InFlight(t) == {h \in DOMAIN pipe[t].task : pipe[t].task[h].st = "run"}

\* C1: when every line of every guard exited zero on every host of a group,
\* no main line is dispatched to any host of the group, and the results sent
\* for the group are one success (nil error) per host.
C1_GuardsSatisfiedSkipMain ==
    \A t \in InvTags :
        AllGuardsZero(t) =>
            /\ obs.tag[t].nMain = 0
            /\ obs.tag[t].mainHosts = {}
            /\ Returned(t) =>
                /\ pipe[t].chErr = NilErr
                /\ obs.tag[t].collected[obs.tag[t].g] + Cardinality(pipe[t].ch)
                       = Cardinality(ObsGroup(t))

C1_Witness ==
    \E t \in InvTags :
        /\ AllGuardsZero(t)
        /\ Cardinality(ObsGroup(t)) = 2
        /\ pipe[t].pc = "start"
        /\ obs.tag[t].collected[obs.tag[t].g] = 2

C3_GuardFailureIsNoError ==
    /\ \A t \in InvTags :
        /\ (InGroup(t) /\ obs.tag[t].mainFail = {} /\ ~obs.tag[t].subErr)
              => /\ pipe[t].lastErr = NilErr
                 /\ pipe[t].chErr = NilErr
                 /\ pipe[t].pend = NilErr
                 /\ pipe[t].pc \notin {"crash", "panic"}
        /\ (Returned(t) /\ obs.tag[t].gNonZero # {} /\ ~obs.tag[t].subErr)
              => pipe[t].needToRun
    /\ \A e \in obs.errs \cup {ret} :
          e.kind \in {"exit", "subst"} => <<e.tag, e.g>> \in obs.badGroups

C3_Witness ==
    /\ mainPc = "returned"
    /\ ret = NilErr
    /\ ~obs.declined
    /\ \E t \in InvTags : obs.tag[t].gNonZero # {} /\ pipe[t].pc = "done"

\* C4: when a main line, or a piece of an expanded main line, exited
\* non-zero on some host of a group, no later line is dispatched to the
\* group, and the results sent for the group carry that error.
C4_MainFailureAborts ==
    \A t \in InvTags :
        obs.tag[t].mainFail # {} =>
            /\ obs.tag[t].nMain = obs.tag[t].failAt
            /\ Returned(t) =>
                /\ pipe[t].chErr.kind = "exit"
                /\ pipe[t].chErr.tag = t
                /\ pipe[t].chErr.g = obs.tag[t].g
                /\ pipe[t].chErr.host \in obs.tag[t].mainFail

C4_Witness ==
    \E t \in InvTags :
        /\ obs.tag[t].mainFail # {}
        /\ Returned(t)
        /\ defaultCommand = cUp
        /\ obs.tag[t].failAt = 2
        /\ Cardinality(ObsGroup(t)) = 2

\* C5: rolling batches: a tag's pipeline is in group g only when one result
\* was collected for every host of each of the tag's earlier groups.
C5_RollingBatches ==
    \A t \in InvTags :
        \A g \in 1..(obs.tag[t].g - 1) :
            obs.tag[t].collected[g] = Len(batches[t][g])

C5_Witness ==
    \E t \in InvTags :
        /\ obs.tag[t].g = 2
        /\ Len(batches[t][1]) = 2
        /\ InFlight(t) # {}

\* C9: with serial = N > 0, at most N hosts of one tag have a shell command
\* in flight.
C9_SerialBoundsInFlight ==
    flgs.Serial > 0 =>
        \A t \in InvTags : Cardinality(InFlight(t)) <= flgs.Serial

C9_Witness ==
    \E t \in InvTags :
        /\ flgs.Serial = 2
        /\ Cardinality(InFlight(t)) = 2
        /\ Len(batches[t]) = 2

\* The hosts that carry tag in the inventory.
HostsOf(tag) == {h \in DOMAIN inventory : tag \in inventory[h]}

RECURSIVE SumSizes(_)
SumSizes(b) == IF b = <<>> THEN 0 ELSE Len(Head(b)) + SumSizes(Tail(b))

\* C10: makeBatches with serial = N > 0 makes, for a tag with k hosts,
\* ceil(k/N) groups, each non-empty and of size at most N, all but the last
\* of size N, that hold every host of the tag exactly once; with serial = 0
\* it makes one group of all k hosts.
C10_MakeBatches ==
    \A tag \in DOMAIN batches :
        LET b == batches[tag]
            k == Cardinality(HostsOf(tag))
            N == flgs.Serial
        IN  /\ SumSizes(b) = k
            /\ UNION {Range(b[i]) : i \in 1..Len(b)} = HostsOf(tag)
            /\ IF N = 0 THEN Len(b) = 1
               ELSE /\ Len(b) = (k + N - 1) \div N
                    /\ \A i \in 1..Len(b) :
                          /\ Len(b[i]) >= 1
                          /\ Len(b[i]) <= N
                          /\ i < Len(b) => Len(b[i]) = N

C10_Witness ==
    \E tag \in DOMAIN batches :
        /\ flgs.Serial = 2
        /\ Len(batches[tag]) = 2
        /\ Len(batches[tag][1]) = 2
        /\ Len(batches[tag][2]) = 1

\* run() has returned from its final wait loop (not from its set up, and
\* not because the user declined at a prompt).
ReturnedFromWait ==
    /\ mainPc = "returned"
    /\ DOMAIN batches # {}
    /\ ~obs.declined

\* C6 as stated: the error run returns is the first error collected by any
\* tag pipeline.
C6_Original ==
    (mainPc = "returned" /\ ret # NilErr /\ DOMAIN batches # {})
        => ret = obs.firstErr

\* C6, amended: the error run returns is one that a tag pipeline collected
\* (the one whose send on crash run received, not always the first that was
\* collected); once an error is collected run does not return nil from its
\* final wait loop; and run returns on that error without waiting for the
\* other pipelines.
C6_FailFast ==
    /\ (mainPc = "returned" /\ ret # NilErr /\ DOMAIN batches # {})
          => /\ ret \in obs.errs
             /\ crashClosed
    /\ (ReturnedFromWait /\ ret = NilErr) => obs.errs = {}
    /\ (mainPc = "wait" /\ \E t \in InvTags : pipe[t].pc = "crash")
          => ENABLED (\E t \in InvTags : WaitCrash(t))

C6_Witness ==
    /\ mainPc = "returned"
    /\ ret # NilErr
    /\ ret = obs.firstErr
    /\ \E u \in InvTags : u # ret.tag /\ InFlight(u) # {}

\* C7 as stated: run returns nil only when every host of every group of
\* every selected tag has reported success, and returns an error whenever
\* some host reported a failure.
C7_ExitStatus ==
    (mainPc = "returned" /\ DOMAIN batches # {}) =>
        /\ ret = NilErr =>
              \A t \in DOMAIN batches :
                  obs.tag[t].okHosts = Cardinality(HostsOf(t))
        /\ obs.errs # {} => ret # NilErr

\* C8: tag pipelines are independent and concurrent: a step changes at most
\* one pipeline; a pipeline that is ready to dispatch its next group stays
\* ready whatever the other pipelines and run() do, as long as the process
\* runs; and a pipeline becomes ready only by a step of its own, when it is
\* scheduled or when its previous group is fully collected.
C8_IndependentPipelines ==
    [][\A t \in InvTags :
          /\ pipe'[t] # pipe[t] => \A u \in InvTags \ {t} : pipe'[u] = pipe[u]
          /\ (groupReady(t) /\ pipe'[t] = pipe[t] /\ exitCode' = -1)
                => groupReady(t)'
          /\ (~groupReady(t) /\ groupReady(t)')
                => /\ pipe'[t] # pipe[t]
                   /\ \/ pipe[t].pc = "idle"
                      \/ /\ pipe[t].pc \in {"collect", "crash"}
                         /\ obs'.tag[t].collected[pipe[t].g]
                               = Cardinality(GroupOf(t, pipe[t].g))
      ]_vars

C8_Witness ==
    \E t, u \in InvTags :
        /\ t # u
        /\ InFlight(t) # {}
        /\ InFlight(u) # {}
        /\ obs.tag[t].g = 2
        /\ obs.tag[u].g = 1

\* A call of substituteVariables has returned.
SubstReturned == sub.st = "ret" /\ sub.kind = "subst"

\* C11 as stated: for a table whose references are acyclic,
\* substituteVariables returns without error, whatever the depth of the
\* chain of references.
C11_AcyclicExpands ==
    (SubstReturned /\ sub.cmds \in AcyclicTables) => sub.res[1].err = "nil"

\* C12 as stated: a line that refers to a guard-free command whose body
\* refers to itself, directly or through other commands, fails with
\* 'possible cycle detected'.
C12_CycleDetected ==
    (/\ SubstReturned
     /\ sub.cmds \in CyclicTables
     /\ sub.line \in {Ref(<<"a">>), <<"z", " ">> \o Ref(<<"a">>)})
        => sub.res[1].err = "possible cycle detected"

\* The body of command n has no reference in it.
LiteralBody(cmds, n) ==
    \A i \in 1..Len(cmds[n].Execs) :
        \A k \in 1..Len(cmds[n].Execs[i]) : cmds[n].Execs[i][k] # "$"

\* C13 as stated: for the line `$n`, a command n with a guard is never
\* expanded, and a guard-free command n (with a body without references) is
\* replaced by its Execs joined by newlines and trimmed.
C13_GuardFreeOnly ==
    \A n \in DOMAIN sub.cmds :
        (SubstReturned /\ sub.line = Ref(n)) =>
            IF Len(sub.cmds[n].ExecIfs) > 0
            THEN sub.res[1] = [out |-> Ref(n), err |-> "nil"]
            ELSE LiteralBody(sub.cmds, n) =>
                    sub.res[1] = [out |-> TrimSpace(JoinExecs(sub.cmds[n].Execs)),
                                  err |-> "nil"]

\* C14 as stated: in the line handed to the shell for host h, `$server` of
\* the Upfile line is replaced by h, whatever commands and variables are
\* defined.
C14_ServerIsHost ==
    (/\ sub.st = "ret"
     /\ sub.kind \in {"main", "guard"}
     /\ sub.line = <<"e", " ">> \o Ref(server))
        => sub.res = << [out |-> <<"e", " ">> \o HostName(sub.host), err |-> "nil"] >>

\* Whether old occurs somewhere in s.
Contains(s, old) == \E i \in 1..Len(s) : HasPrefixAt(s, i, old)

\* The line of the Upfile that tag t's pipeline has dispatched last.
DispatchedLine(t) ==
    IF pipe[t].mode = "guard"
    THEN Commands[TheCmd.ExecIfs[pipe[t].gi]].Execs[pipe[t].si]
    ELSE TheCmd.Execs[pipe[t].li]

\* C15: every shell line made from a line of the Upfile with `$checksum` in
\* it has the checksum of the run in its place, the same for every host,
\* group and tag; the checksum is computed before any pipeline starts and
\* never changes afterwards.
C15_OneChecksum ==
    /\ [](\A t \in InvTags :
            /\ pipe[t].pc # "idle" => chk = Chk
            /\ \A h \in DOMAIN pipe[t].task :
                  (pipe[t].pc = "wait" /\ Contains(DispatchedLine(t), Ref(checksum)))
                     => /\ pipe[t].task[h].st # "subst"
                        /\ pipe[t].task[h].cmd =
                              Replace(<< <<Ref(checksum), chk>>,
                                         <<Ref(server), HostName(h)>> >>,
                                      DispatchedLine(t)))
    /\ [][mainPc # "start" => chk' = chk]_vars

C15_Witness ==
    \E t, u \in InvTags :
        \E h \in DOMAIN pipe[t].task, k \in DOMAIN pipe[u].task :
            /\ t # u
            /\ h # k
            /\ pipe[t].pc = "wait"
            /\ pipe[u].pc = "wait"
            /\ pipe[t].mode = "main"
            /\ pipe[u].mode = "guard"
            /\ pipe[t].task[h].cmd = <<"d", " ">> \o Chk
            /\ pipe[u].task[k].cmd = <<"v", " ">> \o Chk

\* C16: the shared command table is never modified: the pseudo-commands are
\* put into copies only, and the line each runCmd hands to the shell has its
\* own host, and no other, in place of `$server`, under every interleaving
\* of the runCmd goroutines.
C16_SharedTableUntouched ==
    /\ [](/\ Deref(heap, SharedRef) = Commands
          /\ \A h \in DOMAIN rc.task :
                rc.task[h].pc = "done" =>
                    /\ rc.task[h].err = "nil"
                    /\ rc.task[h].out =
                          Replace(<< <<Ref(checksum), Chk>>,
                                     <<Ref(server), HostName(h)>> >>, rc.line)
                    /\ \A k \in CopyHosts \ {h} :
                          ~Contains(rc.task[h].out, HostName(k)))
    /\ [][Deref(heap', SharedRef) = Deref(heap, SharedRef)]_vars

C16_Witness ==
    /\ rc.pc = "wait"
    /\ rc.line = <<"e", " ">> \o Ref(server)
    /\ rc.task[1].pc = "done"
    /\ rc.task[2].pc = "subst"
    /\ rc.task[3].pc = "put"
    /\ rc.task[1].out = <<"e", " ">> \o HostName(1)

\* ---- the Upfile as text: its lines, command lines and their words

\* The pieces of the text between newlines; every piece but the last is a
\* line that ends with a newline.
TextLines == SplitLines(text)

\* The words of a line: its maximal runs without a blank.
RECURSIVE Fields(_)
Fields(l) ==
    IF l = <<>> THEN <<>>
    ELSE IF Head(l) = " " THEN Fields(Tail(l))
    ELSE LET stop == {k \in 1..Len(l) : l[k] = " "}
             e == IF stop = {} THEN Len(l) + 1 ELSE Min(stop)
         IN  <<SubSeq(l, 1, e - 1)>> \o Fields(SubSeq(l, e, Len(l)))

IsBodyLine(l) == l # <<>> /\ Head(l) = TAB
\* Line i names a command: it starts with a word that is not the inventory
\* keyword; only the first line of the text may have blanks before the word.
IsCommandLine(i) ==
    LET l == TextLines[i]
    IN  /\ Fields(l) # <<>>
        /\ Head(l) # TAB
        /\ Head(l) = " " => i = 1
        /\ Head(Fields(l)) # Keyword

\* The command lines of the text, by line number.
CommandLines == {i \in 1..Len(TextLines) : IsCommandLine(i)}
NameAt(i) == Head(Fields(TextLines[i]))
GuardsAt(i) == Range(Tail(Fields(TextLines[i])))

\* The text is made of command lines and body lines only, and starts with a
\* command line (after its last newline there may be nothing).
PlainUpfile ==
    /\ IsCommandLine(1)
    /\ \A i \in 1..Len(TextLines) :
          \/ IsCommandLine(i)
          \/ IsBodyLine(TextLines[i])
          \/ i = Len(TextLines) /\ TextLines[i] = <<>>

\* The command line i is followed by a body line that ends with a newline.
HasBodyLine(i) == i + 1 < Len(TextLines) /\ IsBodyLine(TextLines[i + 1])

\* The four defects of C17 as properties of the text.
DuplicateName == \E i, j \in CommandLines : i < j /\ NameAt(i) = NameAt(j)
SelfGuard == \E i \in CommandLines : NameAt(i) \in GuardsAt(i)
UndefinedGuard ==
    \E i \in CommandLines :
        \E g \in GuardsAt(i) : g \notin {NameAt(j) : j \in CommandLines}
Bodyless == {i \in CommandLines : ~HasBodyLine(i)}
NoBody == Bodyless # {}

\* The command lines with a guard that is the command itself or undefined.
InvalidGuarded ==
    {i \in CommandLines :
        \E g \in GuardsAt(i) :
            g = NameAt(i) \/ g \notin {NameAt(j) : j \in CommandLines}}

\* How many of the four defects the text has.
NumDefects ==
    Cardinality({d \in {"a", "b", "c", "d"} :
                    \/ d = "a" /\ DuplicateName
                    \/ d = "b" /\ SelfGuard
                    \/ d = "c" /\ UndefinedGuard
                    \/ d = "d" /\ NoBody})

\* parse has returned for the text (and not for a text printed from a table).
Parsed == parsed.st # "none" /\ parsed.from = <<>>

\* What parse returns for the text under each order of its validation loop.
Outcomes == {parseWith(text, order) : order \in Perms(DOMAIN TableOf(text))}

\* C17 as stated: a text with one of the four defects fails with that
\* defect's error, and the outcome is the same on every run.
C17_Original ==
    (Parsed /\ PlainUpfile) =>
        /\ NumDefects >= 1 => parsed.st = "err"
        /\ NumDefects = 1 =>
              /\ DuplicateName => parsed.err = "duplicate command"
              /\ SelfGuard => parsed.err = "depends on itself"
              /\ UndefinedGuard => parsed.err = "is undefined"
              /\ NoBody => parsed.err = "nothing to exec for"
        /\ Cardinality(Outcomes) = 1

\* C17, amended: a text with one of the four defects fails on every run;
\* with one defect only, the error is that defect's error, where the command
\* without body that is reported is the first one, and one whose line ends
\* the input without a newline is reported as 'unexpected eof in command
\* line'; the outcome is the same on every run when at most one command
\* has a self-referential or undefined guard.
C17_DefectsRejected ==
    (Parsed /\ PlainUpfile) =>
        /\ NumDefects >= 1 => \A r \in Outcomes : r.st = "err"
        /\ NumDefects = 1 =>
              /\ DuplicateName => parsed.err = "duplicate command"
              /\ SelfGuard => parsed.err = "depends on itself"
              /\ UndefinedGuard => parsed.err = "is undefined"
              /\ NoBody =>
                    IF Min(Bodyless) = Len(TextLines)
                    THEN parsed.err = "unexpected eof in command line"
                    ELSE /\ parsed.err = "nothing to exec for"
                         /\ parsed.name = NameAt(Min(Bodyless))
        /\ Cardinality(InvalidGuarded) <= 1 => Cardinality(Outcomes) = 1

C17_Witness ==
    /\ Parsed
    /\ PlainUpfile
    /\ SelfGuard
    /\ NumDefects = 1
    /\ Cardinality(CommandLines) = 2
    /\ parsed.err = "depends on itself"

\* C18 as stated: parse fails for a text without any command: the empty
\* text or blank lines only.
C18_EmptyRejected ==
    (Parsed /\ \A i \in 1..Len(text) : text[i] = NL) => parsed.st = "err"

\* C19: after a successful parse of a text with a command line,
\* DefaultCommand is the name of the first command line and a key of the
\* table, also when other commands follow.
C19_DefaultIsFirst ==
    (Parsed /\ parsed.st = "ok" /\ CommandLines # {}) =>
        /\ parsed.conf.DefaultCommand = NameAt(Min(CommandLines))
        /\ parsed.conf.DefaultCommand \in DOMAIN parsed.conf.Commands

C19_Witness ==
    /\ Parsed
    /\ parsed.st = "ok"
    /\ Cardinality(DOMAIN parsed.conf.Commands) = 2
    /\ parsed.conf.DefaultCommand = <<"b">>
    /\ CommandLines = {1, 3}

\* C20 as stated: the text printed from the table of a successful parse
\* parses to an equal table.
C20_RoundTrip ==
    (parsed.st # "none" /\ parsed.from # <<>>) =>
        /\ parsed.st = "ok"
        /\ parsed.conf.Commands = parsed.from[1].Commands

\* ---- C21: tag selection

\* The hosts listed in the batches of tag t.
BatchedUnder(b, t) == UNION {Range(b[t][g]) : g \in 1..Len(b[t])}

\* The tags run() selects: -t, or the command's name when -t is absent.
SelectedTags ==
    IF flgs.Tags # {} THEN flgs.Tags
    ELSE IF flgs.Command # <<>> THEN {flgs.Command} ELSE {defaultCommand}

Scheduled == {t \in InvTags : t \in DOMAIN batches /\ t \notin unsched}

\* How often confirmPrompt has returned true: once after every scheduled
\* tag, but for the one run() is prompting for now.
Confirmations == Cardinality(Scheduled) - (IF mainPc = "prompt" THEN 1 ELSE 0)

\* The groups for which runExecIfs has been called.
GroupsStarted(t) ==
    IF pipe[t].pc = "idle" THEN 0
    ELSE IF pipe[t].pc = "start" THEN pipe[t].g - 1
    ELSE pipe[t].g

RECURSIVE SumOver(_, _)
SumOver(S, f) ==
    IF S = {} THEN 0
    ELSE LET x == CHOOSE y \in S : TRUE IN f[x] + SumOver(S \ {x}, f)

AllGroupsStarted == SumOver(InvTags, [t \in InvTags |-> GroupsStarted(t)])

\* C22 as stated: with -p every group but the first of the run is started
\* only after a confirmation of its own.
C22_PromptBetweenGroups ==
    (flgs.Prompt /\ mainPc \in {"sched", "prompt", "wait"} /\ ~obs.declined) =>
        AllGroupsStarted <= 1 + Confirmations

\* ---- C23: the lexing goroutine ends

\* C23: when parse has returned, with a table or with an error, every token
\* of the goroutine has been received, and the goroutine closes the channel.
C23_LexerEnds ==
    /\ [](lx.pc = "returned" => lx.got = lx.len)
    /\ (lx.pc = "returned") ~> (lx.pc = "returned" /\ lx.closed)

C23_Witness ==
    /\ lx.pc = "returned"
    /\ lx.closed
    /\ parsed.st = "err"
    /\ parsed.n + 2 <= lx.len

\* ---- C24: the keyword token

\* The maximal runs of s without a blank, a tab or an end of line.
RECURSIVE Runs(_)
Runs(s) ==
    IF s = <<>> THEN <<>>
    ELSE IF IsSpace(Head(s)) THEN Runs(Tail(s))
    ELSE LET stop == {k \in 1..Len(s) : IsSpace(s[k])}
             e == IF stop = {} THEN Len(s) + 1 ELSE Min(stop)
         IN  <<SubSeq(s, 1, e - 1)>> \o Runs(SubSeq(s, e, Len(s)))

\* The tokens of the goroutine that are neither blanks, tabs, ends of line
\* nor EOF.
WordTokens ==
    SelectSeq(lex(text),
              LAMBDA k : k.typ \notin {"Space", "Newline", "EOF"} /\ k.val # <<TAB>>)

\* C24 as stated: once every token is emitted, there is one token for each
\* run of the text; it is the keyword token only if the run is the keyword,
\* and every run that is not the keyword is one text token.
C24_KeywordExact ==
    (lx.pc # "none" /\ lx.got = lx.len) =>
        /\ Len(WordTokens) = Len(Runs(text))
        /\ \A k \in 1..Len(WordTokens) :
              /\ WordTokens[k].typ = "Inventory" => Runs(text)[k] = Keyword
              /\ Runs(text)[k] # Keyword => WordTokens[k] = Tkn("Text", Runs(text)[k])

\* ---- C25: the main lines in order, with a barrier

\* The lines runExecIfs hands to runExec for the main Execs of command c
\* from line li on: each line substituted and split at its newlines, up to
\* a line that cannot be substituted.
RECURSIVE FlatMain(_, _)
FlatMain(c, li) ==
    IF li > Len(Commands[c].Execs) THEN <<>>
    ELSE LET r == substituteVariables(Vars, Commands, Commands[c].Execs[li])
         IN  IF r.err # "nil" THEN <<>>
             ELSE SplitLines(r.out) \o FlatMain(c, li + 1)

\* For each command that is run, what runCmd makes of each of these lines on
\* each host, under the checksum of the run.
MainTasks ==
    [c \in RunCommands |->
        [k \in 1..Len(FlatMain(c, 1)) |->
            [h \in AllHosts |->
                LET r == substituteVariables(
                             Vars, runCmdCmds(runExecCmds(Commands, Chk), h),
                             FlatMain(c, 1)[k])
                IN  IF r.err # "nil" THEN [st |-> "subst", cmd |-> <<>>]
                    ELSE [st |-> "run", cmd |-> r.out]]]]

\* This step dispatches a main line to the group of tag t.
MainDispatch(t) ==
    /\ pipe'[t].pc = "wait"
    /\ pipe'[t].mode = "main"
    /\ \/ obs'.tag[t].nMain # obs.tag[t].nMain
       \/ obs'.tag[t].g # obs.tag[t].g

\* C25: the k-th main line dispatched to a group is the k-th line of the
\* substituted and split Execs, for every host of the group, and it is
\* dispatched only when every host has returned from the line before it
\* (a main line or the last guard line).
C25_MainLinesInOrder ==
    [][\A t \in InvTags :
          MainDispatch(t) =>
              /\ pipe[t].pc = "wait" =>
                    \A h \in DOMAIN pipe[t].task :
                        pipe[t].task[h].st \in {"pass", "fail", "suberr"}
              /\ LET k == obs'.tag[t].nMain
                     lines == MainTasks[defaultCommand]
                 IN  /\ k <= Len(lines)
                     /\ DOMAIN pipe'[t].task = GroupOf(t, pipe'[t].g)
                     /\ \A h \in DOMAIN pipe'[t].task :
                           pipe'[t].task[h] = lines[k][h]
    ]_vars

C25_Witness ==
    \E t \in InvTags :
        /\ defaultCommand = cUp
        /\ pipe[t].pc = "wait"
        /\ pipe[t].mode = "main"
        /\ obs.tag[t].nMain = 3
        /\ Cardinality(DOMAIN pipe[t].task) = 2
        /\ \A h \in DOMAIN pipe[t].task : pipe[t].task[h].cmd = <<"b">>

\* ---- C26: the guards do not short-circuit

\* For each command that is run, what runCmd makes of line si of its guard
\* gi on each host, under the checksum of the run.
GuardTasks ==
    [c \in RunCommands |->
        [gi \in 1..Len(Commands[c].ExecIfs) |->
            [si \in 1..Len(Commands[Commands[c].ExecIfs[gi]].Execs) |->
                [h \in AllHosts |->
                    LET r == substituteVariables(
                                 Vars, runCmdCmds(runExecCmds(Commands, Chk), h),
                                 Commands[Commands[c].ExecIfs[gi]].Execs[si])
                    IN  IF r.err # "nil" THEN [st |-> "subst", cmd |-> <<>>]
                        ELSE [st |-> "run", cmd |-> r.out]]]]]

\* Tag t's pipeline waits for guard line si of guard gi, dispatched to every
\* host of its group.
AtGuardLine(p, t, gi, si) ==
    /\ p.pc = "wait"
    /\ p.mode = "guard"
    /\ p.gi = gi
    /\ p.si = si
    /\ DOMAIN p.task = GroupOf(t, p.g)

\* The guard line at (gi, si) is the last one of the command.
LastGuardLine(gi, si) ==
    /\ gi = Len(TheCmd.ExecIfs)
    /\ si = Len(Commands[TheCmd.ExecIfs[gi]].Execs)

\* C26: a group starts with the first line of the first guard on every
\* host; when every host has returned from a guard line without a
\* substitution error, the next guard line in declaration order is
\* dispatched to every host, whatever the exit codes were; and a main line
\* is dispatched only from the last guard line, all hosts having returned.
C26_GuardsRunFully ==
    [][\A t \in InvTags :
          LET p == pipe[t]
              q == pipe'[t]
              G == GuardTasks[defaultCommand]
          IN  Len(TheCmd.ExecIfs) > 0 =>
                /\ (p.pc = "start" /\ q.pc # "start") =>
                      /\ AtGuardLine(q, t, 1, 1)
                      /\ \A h \in DOMAIN q.task : q.task[h] = G[1][1][h]
                /\ (/\ p.pc = "wait"
                    /\ p.mode = "guard"
                    /\ <<q.pc, q.mode, q.gi, q.si>> # <<p.pc, p.mode, p.gi, p.si>>
                    /\ p.lastErr = NilErr
                    /\ ~LastGuardLine(p.gi, p.si)) =>
                      LET gn == IF p.si < Len(G[p.gi]) THEN p.gi ELSE p.gi + 1
                          sn == IF p.si < Len(G[p.gi]) THEN p.si + 1 ELSE 1
                      IN  /\ \A h \in DOMAIN p.task :
                                p.task[h].st \in {"pass", "fail"}
                          /\ AtGuardLine(q, t, gn, sn)
                          /\ \A h \in DOMAIN q.task : q.task[h] = G[gn][sn][h]
                /\ MainDispatch(t) =>
                      /\ p.pc = "wait"
                      /\ \/ p.mode = "main"
                         \/ /\ p.mode = "guard"
                            /\ LastGuardLine(p.gi, p.si)
                      /\ \A h \in DOMAIN p.task : p.task[h].st \in {"pass", "fail"}
    ]_vars

C26_Witness ==
    \E t \in InvTags :
        /\ defaultCommand = cDep
        /\ AtGuardLine(pipe[t], t, 2, 1)
        /\ Cardinality(DOMAIN pipe[t].task) = 2
        /\ obs.tag[t].gNonZero # {}

\* ---- C27: substitution errors

\* The main lines of command c cannot all be substituted.
MainFailing(c) ==
    \E li \in 1..Len(Commands[c].Execs) :
        substituteVariables(Vars, Commands, Commands[c].Execs[li]).err # "nil"

MainFailingOf == [c \in RunCommands |-> MainFailing(c)]

\* The guard line tag t's pipeline is at cannot be substituted.
AtBadGuardLine(t) ==
    /\ pipe[t].mode = "guard"
    /\ \E h \in AllHosts :
          GuardTasks[defaultCommand][pipe[t].gi][pipe[t].si][h].st = "subst"

\* C27: no shell command is started for a guard line that cannot be
\* substituted, nor for a main line that cannot or for any line after it;
\* the results sent for the group then all carry the substitution error,
\* also when the line is a guard's; and once the results of a group are
\* sent no further line is dispatched to it.
C27_SubstErrorFatal ==
    /\ [](\A t \in InvTags :
            /\ (pipe[t].pc = "wait" /\ AtBadGuardLine(t)) =>
                  \A h \in DOMAIN pipe[t].task :
                      pipe[t].task[h].st \in {"subst", "suberr"}
            /\ InGroup(t) => obs.tag[t].nMain <= Len(MainTasks[defaultCommand])
            /\ (pipe[t].pc = "collect" /\ AtBadGuardLine(t)) =>
                  pipe[t].chErr.kind = "subst"
            /\ (/\ pipe[t].pc = "collect"
                /\ pipe[t].i = 0
                /\ MainFailingOf[defaultCommand]
                /\ Len(TheCmd.ExecIfs) = 0 \/ pipe[t].needToRun
                /\ obs.tag[t].mainFail = {}) =>
                  /\ pipe[t].chErr.kind = "subst"
                  /\ pipe[t].ch = GroupOf(t, pipe[t].g))
    /\ [][\A t \in InvTags :
            pipe[t].pc \in {"collect", "crash"} => pipe'[t].pc # "wait"]_vars

C27_Witness ==
    \E t \in InvTags :
        /\ defaultCommand = cGbad
        /\ pipe[t].pc = "collect"
        /\ AtBadGuardLine(t)
        /\ pipe[t].chErr.kind = "subst"
        /\ Cardinality(pipe[t].ch) = 2

\* ---- C28: the result of a host

\* C28 as stated: a result with the error of a failed command is sent only
\* for hosts on which a command of the group exited non-zero.
C28_ErrorOnlyForFailedHost ==
    \A t \in InvTags :
        (pipe[t].pc = "collect" /\ pipe[t].chErr.kind = "exit") =>
            pipe[t].ch \subseteq obs.tag[t].mainFail

\* ---- C29: guards are resolved after the whole text is read

\* C29: a text of command and body lines in which no name is defined twice
\* and every command has a body line is accepted exactly when every guard
\* is the name of a command of the text, defined before or after, other
\* than the command that names it.
C29_GuardsResolvedAtEnd ==
    (Parsed /\ PlainUpfile /\ ~DuplicateName /\ ~NoBody) =>
        (parsed.st = "ok" <=> (~SelfGuard /\ ~UndefinedGuard))

C29_Witness ==
    /\ Parsed
    /\ text = JoinLines(<<<<"a", " ", "b">>, <<TAB, "x">>, <<"b">>, <<TAB, "x">>>>, TRUE)
    /\ parsed.st = "ok"
    /\ parsed.conf.Commands[<<"a">>].ExecIfs = <<<<"b">>>>

\* ---- C30: what a command holds

\* The body lines of the text from line j on, up to the next line that is
\* none, each without its tab.
RECURSIVE BodyFrom(_)
BodyFrom(j) ==
    IF j <= Len(TextLines) /\ IsBodyLine(TextLines[j])
    THEN <<Tail(TextLines[j])>> \o BodyFrom(j + 1)
    ELSE <<>>

\* C30 as stated: after a successful parse of a text of command and body
\* lines, each command holds the words after its name as ExecIfs and its
\* body lines as Execs, the last line of the text included when no newline
\* follows it.
C30_CommandContents ==
    (Parsed /\ parsed.st = "ok" /\ PlainUpfile) =>
        \A i \in CommandLines :
            /\ NameAt(i) \in DOMAIN parsed.conf.Commands
            /\ parsed.conf.Commands[NameAt(i)].ExecIfs = Tail(Fields(TextLines[i]))
            /\ parsed.conf.Commands[NameAt(i)].Execs = BodyFrom(i + 1)

\* The line before each of the first k replacement passes and after the
\* last of them: k + 1 lines, the first one cmd.
RECURSIVE Passes(_, _, _)
Passes(pairs, cmd, k) ==
    IF k = 0 THEN <<cmd>> ELSE <<cmd>> \o Passes(pairs, Replace(pairs, cmd), k - 1)

\* The replacement list of the call that is looked at.
SubPairs ==
    Replacements(sub.vs, sub.cmds, Restrict(sub.order, DOMAIN sub.cmds),
                 SetToSeq(DOMAIN sub.vs))

\* C31: substituteVariables returns after at most MaxSubstitutions passes:
\* with a nil error from the first pass that changes nothing, and then the
\* returned line is the line before that pass, which one more pass leaves as
\* it is; with the empty line and 'possible cycle detected' when each of the
\* MaxSubstitutions passes changed the line.
C31_BoundedFixedPoint ==
    SubstReturned =>
        LET ps == Passes(SubPairs, sub.line, MaxSubstitutions)
            still == {k \in 1..MaxSubstitutions : ps[k + 1] = ps[k]}
            r == sub.res[1]
        IN  IF still # {}
            THEN /\ r = [out |-> ps[Min(still)], err |-> "nil"]
                 /\ Replace(SubPairs, r.out) = r.out
            ELSE r = [out |-> <<>>, err |-> "possible cycle detected"]

\* The chain of nine commands: `$a` is expanded by nine passes and the tenth
\* finds it unchanged.
C31_Witness ==
    /\ SubstReturned
    /\ sub.cmds = ChainTable(MaxSubstitutions - 1)
    /\ sub.line = Ref(<<"a">>)
    /\ sub.res[1] = [out |-> <<"x">>, err |-> "nil"]

\* C32: runExecIfs puts nothing on the result channel before it returns and
\* one result per host of the group when it returns, on every path; the
\* channel never holds more than the group's size; the collector, which has
\* read i results of the group, finds a result to read whenever it waits for
\* one, and has read one result per host of every group it has left.
C32_OneResultPerHost ==
    \A t \in InvTags :
        LET p == pipe[t]
            c == obs.tag[t].collected
        IN  \A g \in 1..Len(c) :
                LET n == Cardinality(GroupOf(t, g))
                IN  IF g < p.g \/ p.pc = "done" THEN c[g] = n
                    ELSE /\ p.ch \subseteq GroupOf(t, g)
                         /\ p.pc = "wait" => (c[g] = 0 /\ p.ch = {})
                         /\ p.pc # "wait" => c[g] + Cardinality(p.ch) = n
                         /\ p.pc = "collect" => (p.ch # {} /\ c[g] = p.i)

\* The results of a group of two hosts in which a main line failed have
\* both been read.
C32_Witness ==
    \E t \in InvTags :
        /\ InGroup(t)
        /\ Cardinality(ObsGroup(t)) = 2
        /\ pipe[t].chErr.kind = "exit"
        /\ pipe[t].ch = {}
        /\ obs.tag[t].collected[obs.tag[t].g] = 2

\* C33 as stated, for the runs without prompt: no pipeline is at its send on
\* the crash channel, or has panicked there, once run has returned and
\* closed the channel.
C33_NoSendOnClosedCrash ==
    ~flgs.Prompt =>
        \A t \in InvTags : ~(crashClosed /\ pipe[t].pc \in {"crash", "panic"})

\* C34 as stated: once an error result of a group of tag t has been
\* collected, no host of a later group of t has a command in flight.
C34_NoDispatchAfterError ==
    \A t \in InvTags :
        \A e \in obs.errs :
            (e.tag = t /\ pipe[t].g > e.g) => InFlight(t) = {}

\* C35 as stated: no host has a command in flight from the pipelines of two
\* tags at the same time.
C35_OneCommandPerHost ==
    \A h \in Hosts : Cardinality({t \in InvTags : h \in InFlight(t)}) <= 1

\* C36 as stated: what a call of substituteVariables returned is what it
\* returns under every other order of enumeration of the command table.
C36_OrderIndependent ==
    SubstReturned =>
        \A order \in SubstOrders(sub.cmds) :
            substituteWith(sub.vs, sub.cmds, Restrict(order, DOMAIN sub.cmds),
                           SetToSeq(DOMAIN sub.vs), sub.line) = sub.res[1]

\* ---- C37: guards are not nested

\* The guard with index gi of the command that is run has a guard of its own.
GuardedGuard(gi) == Len(Commands[TheCmd.ExecIfs[gi]].ExecIfs) > 0

\* C37: every line in flight for a guard is a line of the Execs of that
\* guard, also when the guard has guards of its own, whose lines are never
\* run for it; and once the guard loop is over without a substitution error,
\* a main line has been dispatched exactly when one of these lines exited
\* non-zero on some host of the group.
C37_GuardsNotNested ==
    \A t \in InvTags :
        LET p == pipe[t]
            G == GuardTasks[defaultCommand]
        IN  (InGroup(t) /\ Len(TheCmd.ExecIfs) > 0) =>
              /\ (p.pc = "wait" /\ p.mode = "guard") =>
                    /\ p.gi \in 1..Len(G)
                    /\ p.si \in 1..Len(G[p.gi])
                    /\ \A h \in DOMAIN p.task :
                          G[p.gi][p.si][h].st = "run" =>
                              p.task[h].cmd = G[p.gi][p.si][h].cmd
              /\ (~obs.tag[t].subErr /\ (Returned(t) \/ p.mode = "main")) =>
                    (obs.tag[t].nMain >= 1 <=> obs.tag[t].gNonZero # {})

\* The main line of `dep` is in flight on two hosts after a line of its
\* second guard, which has a guard of its own, exited non-zero.
C37_Witness ==
    \E t \in InvTags :
        /\ defaultCommand = cDep
        /\ GuardedGuard(2)
        /\ pipe[t].pc = "wait"
        /\ pipe[t].mode = "main"
        /\ Cardinality(InFlight(t)) = 2
        /\ obs.tag[t].gNonZero # {}
        /\ obs.tag[t].gZero = 3

\* ---- C38: run returns

\* C38: in a run without -p in which the goroutines run when they can and
\* every shell returns, run() eventually returns.
C38_RunReturns == <>(mainPc = "returned")

\* run() has returned nil after the pipelines of two tags, one of them with
\* several groups, have each sent on done.
C38_Witness ==
    /\ mainPc = "returned"
    /\ ret = NilErr
    /\ waitI = 2
    /\ \A t \in InvTags : pipe[t].pc = "done"
    /\ \E t \in InvTags : pipe[t].g >= 2

\* ---- C39: the scanning state and the parser

\* s is the start of t.
IsPrefix(s, t) == Len(s) <= Len(t) /\ SubSeq(t, 1, Len(s)) = s

\* C39 as stated: the tokens delivered to the parser are those the lexer
\* makes of the text when it is left alone, the lexing goroutine does not
\* fail, and no step of the parser changes the scanning state.
C39_ScanStateOwnedByLexer ==
    /\ [](IsPrefix(lx.got, lex(text)) /\ ~lx.panicked)
    /\ [][lx'.ps # lx.ps =>
            <<lx'.pos, lx'.start, lx'.width>> = <<lx.pos, lx.start, lx.width>>]_vars

====
